---- MODULE Spec2Model ----
(***************************************************************************)
(* pyPOCQuant: quantification of the bands of a lateral-flow test strip.   *)
(*                                                                         *)
(* Three state machines share this module.                                 *)
(*   SpecAnalysis  analyze_measurement_window (lib/analysis.py), stepped   *)
(*                 through its passes on every profile of a bounded size.  *)
(*   SpecBars      identify_bars_alt (lib/analysis.py) as a pure function  *)
(*                 of the peak positions it is given.                      *)
(*   Spec          run() (lib/pipeline.py), one image through the stages.  *)
(*                                                                         *)
(* Arithmetic is exact: intensities are integers, relative positions and   *)
(* tolerances are hundredths, signals and ratios are reduced fractions     *)
(* <<num, den>>; den = 0 stands for the non-finite value numpy yields when *)
(* a float64 is divided by zero.                                           *)
(***************************************************************************)
EXTENDS Integers, Sequences, FiniteSets, TLC

VARIABLES
    \* ---- analyze_measurement_window
    profile,              \* profile after smoothing and clipping, 0-based
    valid_peaks,          \* list of accepted peak columns
    valid_lower_bounds,   \* list, parallel to valid_peaks
    valid_upper_bounds,   \* list, parallel to valid_peaks
    band_signals,         \* list of fractions, parallel to valid_peaks
    merged_results,       \* band name -> record, the function's result
    amw_pc,               \* position inside analyze_measurement_window
    \* ---- identify_bars_alt
    peak_positions,       \* argument: list of peak positions
    profile_length,       \* argument
    tolerance,            \* argument, in hundredths
    row_col,              \* the (row, col) pairs of linear_sum_assignment
    bars,                 \* returned dictionary: band name -> 0-based index
    iba_pc,               \* "call" before, "return" after the call
    \* ---- run
    pc,                   \* position inside run()
    settings,             \* the arguments of run() that steer the stages
    barcode_data,         \* the barcodes of the decode run() holds
    best_score,           \* completeness score that run() holds
    fid,                  \* sample identifier
    patient,              \* manufacturer, plate, well, user
    fid_128,              \* fallback CODE128 / CODE39 identifier
    box_found,            \* did find_strip_box_from_barcode_data_fh give a box
    sensor,               \* the sensor: its profile and its score
    window_results,       \* last result of analyze_measurement_window
    results_row,          \* the record under construction
    row_data,             \* the record run() returned
    invoked,              \* <<stage, outcome>> of every stage invoked, in order
                          \* (a decode also with the fid and fid_128 it returned)
    \* ---- run_pool
    files,                \* argument: per file, what run() does on it
    futures,              \* per file: "pending", "running" or what run() gave
    res,                  \* returned list of records
    log_list,             \* returned list of logs
    pool_pc,              \* position inside run_pool
    max_workers,          \* argument: the threads of the executor
    \* ---- one call of a function of lib/barcode.py
    call_pc,              \* "call" before, "return" after the call
    call_args,            \* the arguments of the call
    call_result           \* what the call returned or raised

amw_vars == <<profile, valid_peaks, valid_lower_bounds, valid_upper_bounds,
              band_signals, merged_results, amw_pc>>
iba_vars == <<peak_positions, profile_length, tolerance, row_col, bars, iba_pc>>
run_vars == <<pc, settings, barcode_data, best_score, fid, patient, fid_128,
              box_found, sensor, window_results, results_row, row_data, invoked>>
pool_vars == <<files, futures, res, log_list, pool_pc, max_workers>>
call_vars == <<call_pc, call_args, call_result>>
vars == <<amw_vars, iba_vars, run_vars, pool_vars, call_vars>>

-----------------------------------------------------------------------------
(* Bounds of the model *)

InteriorLen == 7     \* columns of the sensor window outside the border
MaxVal == 3          \* intensities of a profile are 0..MaxVal
BorderX == 1         \* border_x, the lateral border of the window
MaxPeaks == 3        \* peaks handed to identify_bars_alt

-----------------------------------------------------------------------------
(* Configuration of the sensor: band names and where they are expected *)

sensor_band_names == <<"igg", "igm", "ctl">>
peak_expected_relative_location == <<25, 50, 75>>     \* hundredths
control_band_index == 3                               \* -1: the last band
DefaultTolerance == 10                                \* 0.1
\* variant: a width between the two
three_peak_widths == <<7, 5, 3>>

peak_widths == <<7, 3>>

Bands == {sensor_band_names[i] : i \in DOMAIN sensor_band_names}
control_band_name == sensor_band_names[control_band_index]

-----------------------------------------------------------------------------
(* Helpers: lists, fractions *)

Range(s) == {s[i] : i \in DOMAIN s}
Abs(x) == IF x < 0 THEN -x ELSE x
Max(a, b) == IF a >= b THEN a ELSE b
Min(a, b) == IF a <= b THEN a ELSE b

RECURSIVE GCD(_, _)
GCD(a, b) == IF b = 0 THEN a ELSE GCD(b, a % b)

Sign(x) == IF x > 0 THEN 1 ELSE IF x < 0 THEN -1 ELSE 0

\* the fraction n / d in lowest terms; d = 0 is the non-finite result
Frac(n, d) ==
    IF d = 0 THEN <<Sign(n), 0>>
    ELSE LET g == GCD(Abs(n), Abs(d))
             s == IF d < 0 THEN -1 ELSE 1
         IN  <<s * (n \div g), s * (d \div g)>>

Zero == <<0, 1>>
One == <<1, 1>>
FracDiv(a, b) == Frac(a[1] * b[2], a[2] * b[1])

-----------------------------------------------------------------------------
(* scipy.signal.find_peaks(x, width=w) on profile[border_x : len - border_x] *)

PLen(p) == Cardinality(DOMAIN p)

RECURSIVE PlateauEnd(_, _, _, _)
PlateauEnd(x, i, i_ahead, i_max) ==
    IF i_ahead < i_max /\ x[i_ahead] = x[i]
    THEN PlateauEnd(x, i, i_ahead + 1, i_max)
    ELSE i_ahead

\* midpoints of the (flat) local maxima at or after i, edges excluded
RECURSIVE LocalMaxima1D(_, _, _)
LocalMaxima1D(x, i, i_max) ==
    IF i >= i_max THEN <<>>
    ELSE IF x[i - 1] < x[i]
         THEN LET i_ahead == PlateauEnd(x, i, i + 1, i_max)
              IN  IF x[i_ahead] < x[i]
                  THEN <<(i + i_ahead - 1) \div 2>> \o LocalMaxima1D(x, i_ahead + 1, i_max)
                  ELSE LocalMaxima1D(x, i + 1, i_max)
         ELSE LocalMaxima1D(x, i + 1, i_max)

RECURSIVE LeftBase(_, _, _, _, _)
LeftBase(x, peak, i, base, i_min) ==
    IF i >= i_min /\ x[i] <= x[peak]
    THEN LeftBase(x, peak, i - 1, IF x[i] < x[base] THEN i ELSE base, i_min)
    ELSE base

RECURSIVE RightBase(_, _, _, _, _)
RightBase(x, peak, i, base, i_max) ==
    IF i <= i_max /\ x[i] <= x[peak]
    THEN RightBase(x, peak, i + 1, IF x[i] < x[base] THEN i ELSE base, i_max)
    ELSE base

RECURSIVE WalkLeft(_, _, _, _)
WalkLeft(x, i, left_base, h2) ==
    IF left_base < i /\ h2 < 2 * x[i] THEN WalkLeft(x, i - 1, left_base, h2) ELSE i

RECURSIVE WalkRight(_, _, _, _)
WalkRight(x, i, right_base, h2) ==
    IF i < right_base /\ h2 < 2 * x[i] THEN WalkRight(x, i + 1, right_base, h2) ELSE i

\* width of the peak at half its prominence (rel_height 0.5) >= w,
\* the two crossings interpolated linearly; h2 is twice the height
PeakWidthAtLeast(x, peak, first, last, w) ==
    \E left_base \in {LeftBase(x, peak, peak, peak, first)},
       right_base \in {RightBase(x, peak, peak, peak, last)} :
      \E h2 \in {2 * x[peak] - (x[peak] - Max(x[left_base], x[right_base]))} :
        \E il \in {WalkLeft(x, peak, left_base, h2)},
           ir \in {WalkRight(x, peak, right_base, h2)} :
          LET a == IF 2 * x[il] < h2 THEN h2 - 2 * x[il] ELSE 0
              b == IF 2 * x[il] < h2 THEN 2 * (x[il + 1] - x[il]) ELSE 1
              c == IF 2 * x[ir] < h2 THEN h2 - 2 * x[ir] ELSE 0
              d == IF 2 * x[ir] < h2 THEN 2 * (x[ir - 1] - x[ir]) ELSE 1
          IN  (ir - il - w) * b * d >= a * d + c * b

find_peaks(p, border, w) ==
    LET first == border
        last == PLen(p) - border - 1
        maxima == LocalMaxima1D(p, first + 1, last)
    IN  SelectSeq(maxima, LAMBDA m : PeakWidthAtLeast(p, m, first, last, w))

-----------------------------------------------------------------------------
(* find_peak_bounds and its two one-sided searches *)

RECURSIVE LowerWalk(_, _, _, _, _, _, _)
LowerWalk(p, index, lowest_bound, max_skip, bound, background, n) ==
    IF index <= lowest_bound THEN <<bound, background>>
    ELSE IF p[index] <= background
         THEN LowerWalk(p, index - 1, lowest_bound, max_skip, index, p[index], n)
         ELSE IF n > max_skip THEN <<bound, background>>
              ELSE LowerWalk(p, index - 1, lowest_bound, max_skip, bound, background, n + 1)

find_lower_background(p, peak_index, lowest_bound, max_skip) ==
    LowerWalk(p, peak_index - 1, lowest_bound, max_skip,
              peak_index - 1, p[peak_index], 0)

RECURSIVE UpperWalk(_, _, _, _, _, _, _)
UpperWalk(p, index, highest_bound, max_skip, bound, background, n) ==
    IF index >= highest_bound THEN <<bound, background>>
    ELSE IF p[index] <= background
         THEN UpperWalk(p, index + 1, highest_bound, max_skip, index, p[index], n)
         ELSE IF n > max_skip THEN <<bound, background>>
              ELSE UpperWalk(p, index + 1, highest_bound, max_skip, bound, background, n + 1)

find_upper_background(p, peak_index, highest_bound, max_skip) ==
    UpperWalk(p, peak_index + 1, highest_bound, max_skip,
              peak_index + 1, p[peak_index], 0)

\* (side_background - background) / (peak_intensity - background) > 0.25;
\* 0/0 is nan in float64 and compares false
ResidualTooLarge(side_background, background, peak_intensity) ==
    IF peak_intensity - background = 0 THEN FALSE
    ELSE 4 * (side_background - background) > peak_intensity - background

\* The loop "while i_lower > 0.25 and max_skip_lower <= 5"; lower is the pair
\* <<current_lower_bound, current_lower_background>> held on entry and
\* too_large the loop's test of i_lower.
RECURSIVE RefineLower(_, _, _, _, _, _, _)

\* the loop body once the search was rerun, again being its result
RefineLowerWith(p, peak_index, lowest_bound, again, upper_background, max_skip_lower) ==
    RefineLower(p, peak_index, lowest_bound, again, upper_background,
                max_skip_lower + 1,
                ResidualTooLarge(again[2], Min(again[2], upper_background),
                                 p[peak_index]))

RefineLower(p, peak_index, lowest_bound, lower, upper_background, max_skip_lower, too_large) ==
    IF too_large /\ max_skip_lower <= 5
    THEN RefineLowerWith(p, peak_index, lowest_bound,
             find_lower_background(p, peak_index, lowest_bound, max_skip_lower),
             upper_background, max_skip_lower)
    ELSE lower

\* The loop "while i_upper > 0.25 and max_skip_upper <= 5"
RECURSIVE RefineUpper(_, _, _, _, _, _, _)

RefineUpperWith(p, peak_index, highest_bound, again, lower_background, max_skip_upper) ==
    RefineUpper(p, peak_index, highest_bound, again, lower_background,
                max_skip_upper + 1,
                ResidualTooLarge(again[2], Min(lower_background, again[2]),
                                 p[peak_index]))

RefineUpper(p, peak_index, highest_bound, upper, lower_background, max_skip_upper, too_large) ==
    IF too_large /\ max_skip_upper <= 5
    THEN RefineUpperWith(p, peak_index, highest_bound,
             find_upper_background(p, peak_index, highest_bound, max_skip_upper),
             lower_background, max_skip_upper)
    ELSE upper

\* the second loop and the return, lower being what the first loop left
RefineUpperAfter(p, border, peak_index, lower, upper0, i_upper) ==
    <<lower[1],
      RefineUpper(p, peak_index, PLen(p) - border, upper0, lower[2], 2, i_upper)[1]>>

\* the quality check on the bounds lower0 and upper0 found with max_skip = 1;
\* i_lower and i_upper are both computed before either loop runs
RefineBounds(p, border, peak_index, lower0, upper0) ==
    LET background == Min(lower0[2], upper0[2])
        i_lower == ResidualTooLarge(lower0[2], background, p[peak_index])
        i_upper == ResidualTooLarge(upper0[2], background, p[peak_index])
    IN  RefineUpperAfter(p, border, peak_index,
            RefineLower(p, peak_index, border, lower0, upper0[2], 2, i_lower),
            upper0, i_upper)

\* <<current_lower_bound, current_upper_bound>>
find_peak_bounds(p, border, peak_index) ==
    RefineBounds(p, border, peak_index,
                 find_lower_background(p, peak_index, border, 1),
                 find_upper_background(p, peak_index, PLen(p) - border, 1))

-----------------------------------------------------------------------------
(* The passes of analyze_measurement_window *)

\* peaks at or above the threshold, with the bounds found for each:
\* <<valid_peaks, valid_lower_bounds, valid_upper_bounds>>
AppendValidPeak(acc, c_peak, bounds) ==
    <<Append(acc[1], c_peak), Append(acc[2], bounds[1]), Append(acc[3], bounds[2])>>

RECURSIVE CollectValidPeaks(_, _, _, _, _)
CollectValidPeaks(p, border, threshold, peaks, acc) ==
    IF peaks = <<>> THEN acc
    ELSE IF p[Head(peaks)] < threshold
         THEN CollectValidPeaks(p, border, threshold, Tail(peaks), acc)
         ELSE CollectValidPeaks(p, border, threshold, Tail(peaks),
                  AppendValidPeak(acc, Head(peaks),
                                  find_peak_bounds(p, border, Head(peaks))))

FindValidPeaks(p, border, threshold, w) ==
    CollectValidPeaks(p, border, threshold, find_peaks(p, border, w),
                      <<<<>>, <<>>, <<>>>>)

\* variant: the left peak keeps the split column as its upper bound
RECURSIVE ResolveOverlapsSharingSplit(_, _, _)
ResolveOverlapsSharingSplit(lower_bounds, upper_bounds, i) ==
    IF i >= Len(lower_bounds) THEN <<lower_bounds, upper_bounds>>
    ELSE LET split == (upper_bounds[i] + lower_bounds[i + 1]) \div 2
         IN  IF upper_bounds[i] >= lower_bounds[i + 1]
             THEN ResolveOverlapsSharingSplit([lower_bounds EXCEPT ![i + 1] = split],
                                              [upper_bounds EXCEPT ![i] = split], i + 1)
             ELSE ResolveOverlapsSharingSplit(lower_bounds, upper_bounds, i + 1)

\* "Check that the peaks do not overlap": <<lower bounds, upper bounds>>
RECURSIVE ResolveOverlapsFrom(_, _, _)
ResolveOverlapsFrom(lower_bounds, upper_bounds, i) ==
    IF i >= Len(lower_bounds) THEN <<lower_bounds, upper_bounds>>
    ELSE LET next_lower_bound == lower_bounds[i + 1]
             current_upper_bound == upper_bounds[i]
             split == (current_upper_bound + next_lower_bound) \div 2
         IN  IF current_upper_bound >= next_lower_bound
             THEN ResolveOverlapsFrom([lower_bounds EXCEPT ![i + 1] = split],
                                      [upper_bounds EXCEPT ![i] = split - 1], i + 1)
             ELSE ResolveOverlapsFrom(lower_bounds, upper_bounds, i + 1)

ResolveOverlaps(lower_bounds, upper_bounds) ==
    ResolveOverlapsFrom(lower_bounds, upper_bounds, 1)

\* sum over i = from..to of W * (p[l + i] - p[l]) - i * (p[u] - p[l])
RECURSIVE ExcessSum(_, _, _, _, _)
ExcessSum(p, lower_bound, upper_bound, i, last) ==
    IF i > last THEN 0
    ELSE (upper_bound - lower_bound + 1) * (p[lower_bound + i] - p[lower_bound])
         - i * (p[upper_bound] - p[lower_bound])
         + ExcessSum(p, lower_bound, upper_bound, i + 1, last)

\* tot_intensity of one band; an empty column range leaves it at 0.0
IntegrateSignal(p, lower_bound, upper_bound) ==
    IF upper_bound < lower_bound THEN Zero
    ELSE Frac(ExcessSum(p, lower_bound, upper_bound, 0, upper_bound - lower_bound),
              upper_bound - lower_bound + 1)

IntegrateSignals(p, peaks, lower_bounds, upper_bounds) ==
    [k \in DOMAIN peaks |-> IntegrateSignal(p, lower_bounds[k], upper_bounds[k])]

-----------------------------------------------------------------------------
(* identify_bars_alt *)

\* |expected - position / profile_length|, as a multiple of 1 / (100 * length)
Dist(expected, position, length) == Abs(expected * length - 100 * position)

dists(positions, length, expected) ==
    [r \in DOMAIN expected |->
        [c \in DOMAIN positions |-> Dist(expected[r], positions[c], length)]]

Injections(S, T) == {f \in [S -> T] : \A a, b \in S : f[a] = f[b] => a = b}

\* the one-to-one matchings of min(rows, columns) pairs <<r, c>>
AssignmentsOf(nr, nc) ==
    IF nr <= nc
    THEN {{<<r, f[r]>> : r \in 1..nr} : f \in Injections(1..nr, 1..nc)}
    ELSE {{<<g[c], c>> : c \in 1..nc} : g \in Injections(1..nc, 1..nr)}

\* the matchings of the shapes that occur, computed once
AssignmentTable ==
    [shape \in (0..Len(sensor_band_names)) \X (0..MaxPeaks) |->
        AssignmentsOf(shape[1], shape[2])]

Assignments(nr, nc) ==
    IF <<nr, nc>> \in DOMAIN AssignmentTable
    THEN AssignmentTable[<<nr, nc>>] ELSE AssignmentsOf(nr, nc)

RECURSIVE Cost(_, _)
Cost(d, m) ==
    IF m = {} THEN 0
    ELSE LET rc == CHOOSE x \in m : TRUE
         IN  d[rc[1]][rc[2]] + Cost(d, m \ {rc})

\* variant: every row takes the column nearest to it
NearestColumnAssignment(d, nr, nc) ==
    IF nc = 0 THEN {{}}
    ELSE {{<<r, CHOOSE c \in 1..nc : \A o \in 1..nc : d[r][c] <= d[r][o]>> :
              r \in 1..nr}}

\* scipy.optimize.linear_sum_assignment: an assignment of minimal cost;
\* which one of several minimal assignments is not specified
Least(S) == CHOOSE c \in S : \A o \in S : c <= o

WithCost(d, candidates, least) == {m \in candidates : Cost(d, m) = least}

MinimalCost(d, candidates) ==
    WithCost(d, candidates, Least({Cost(d, m) : m \in candidates}))

linear_sum_assignment(d, nr, nc) == MinimalCost(d, Assignments(nr, nc))

\* variant: the tolerance itself is not accepted
StrictlyWithinTolerance(d, rc, length, tol) == d[rc[1]][rc[2]] < tol * length

\* is the pair <<r, c>> within the tolerance
WithinTolerance(d, rc, length, tol) == d[rc[1]][rc[2]] <= tol * length

\* the dictionary built from the assignment m: band name -> 0-based index
BarsOf(m, d, names, length, tol) ==
    LET kept == {rc \in m : WithinTolerance(d, rc, length, tol)}
    IN  [b \in {names[rc[1]] : rc \in kept} |->
            (CHOOSE rc \in kept : names[rc[1]] = b)[2] - 1]

\* the possible results of identify_bars_alt, one per minimal assignment
BarsOfEach(d, assignments, names, length, tol) ==
    {BarsOf(m, d, names, length, tol) : m \in assignments}

identify_bars_alt(positions, length, names, expected, tol) ==
    BarsOfEach(dists(positions, length, expected),
               linear_sum_assignment(dists(positions, length, expected),
                                     Len(expected), Len(positions)),
               names, length, tol)

-----------------------------------------------------------------------------
(* Merging and normalisation *)

MergeResults(the_bars, peaks, signals, lower_bounds, upper_bounds) ==
    [bar \in DOMAIN the_bars |->
        [band |-> bar,
         peak_pos |-> peaks[the_bars[bar] + 1],
         signal |-> signals[the_bars[bar] + 1],
         normalized_signal |-> Zero,
         peak_index |-> the_bars[bar],
         lower_bound |-> lower_bounds[the_bars[bar] + 1],
         upper_bound |-> upper_bounds[the_bars[bar] + 1]]]

\* variant: the quotient taken the other way round
NormalizeInverted(merged, names, control_index) ==
    LET control == names[control_index]
    IN  IF control \in DOMAIN merged
        THEN [bar \in DOMAIN merged |->
                 IF bar = control
                 THEN [merged[bar] EXCEPT !.normalized_signal = One]
                 ELSE [merged[bar] EXCEPT !.normalized_signal =
                           FracDiv(merged[control].signal, merged[bar].signal)]]
        ELSE merged

Normalize(merged, names, control_index) ==
    LET control == names[control_index]
    IN  IF control \in DOMAIN merged
        THEN [bar \in DOMAIN merged |->
                 IF bar = control
                 THEN [merged[bar] EXCEPT !.normalized_signal = One]
                 ELSE [merged[bar] EXCEPT !.normalized_signal =
                           FracDiv(merged[bar].signal, merged[control].signal)]]
        ELSE merged

\* the whole call for a profile already smoothed and clipped: the results
\* it may return, one per assignment identify_bars_alt may get
analyze_measurement_window(p, border, peak_threshold, peak_width) ==
    LET found == FindValidPeaks(p, border, peak_threshold, peak_width)
        resolved == ResolveOverlaps(found[2], found[3])
        signals == IntegrateSignals(p, found[1], resolved[1], resolved[2])
    IN  {Normalize(MergeResults(b, found[1], signals, resolved[1], resolved[2]),
                   sensor_band_names, control_band_index) :
            b \in identify_bars_alt(found[1], PLen(p), sensor_band_names,
                                    peak_expected_relative_location,
                                    DefaultTolerance)}

-----------------------------------------------------------------------------
(* The fiducial decode and the strip box (lib/barcode.py) *)

\* lib/consts.py
Issue ==
    [NONE |-> 0, BARCODE_EXTRACTION_FAILED |-> 1, FID_EXTRACTION_FAILED |-> 2,
     STRIP_BOX_EXTRACTION_FAILED |-> 3, STRIP_EXTRACTION_FAILED |-> 4,
     POOR_STRIP_ALIGNMENT |-> 5, SENSOR_EXTRACTION_FAILED |-> 6,
     BAND_QUANTIFICATION_FAILED |-> 7, CONTROL_BAND_MISSING |-> 8]

\* A decoded barcode is one of: a QR label "BR", "BL", "TR", "TL", "TL_P",
\* "L_G", "R_G"; a QR payload "FULL" (fid-manufacturer-Plate-Well-user), "F7"
\* (F and seven digits), "D5" (five digits), "BAD" (anything else); "C128",
\* a CODE128 or CODE39 barcode with data.
CornerLabels == {"BR", "BL", "TR", "TL", "TL_P"}

NoPatient == [manufacturer |-> "", plate |-> "", well |-> "", user |-> ""]

\* the three regular expressions: <<matched, fid, patient data>>
ParsePayload(item) ==
    IF item = "FULL"
    THEN <<TRUE, "AB12", [manufacturer |-> "M", plate |-> "1", well |-> "A1", user |-> "U"]>>
    ELSE IF item = "F7" THEN <<TRUE, "F1234567", NoPatient>>
    ELSE IF item = "D5" THEN <<TRUE, "12345", NoPatient>>
    ELSE <<FALSE, "", NoPatient>>

\* the loop over the barcodes of one attempt; acc holds score, fid, patient
\* and fid_128
RECURSIVE ScanBarcodes(_, _)
ScanBarcodes(items, acc) ==
    IF items = <<>> THEN acc
    ELSE LET item == Head(items)
         IN  ScanBarcodes(Tail(items),
                 IF item \in CornerLabels THEN [acc EXCEPT !.score = @ + 1]
                 ELSE IF item \in {"L_G", "R_G"} THEN acc
                 ELSE IF item = "C128"
                      THEN IF acc.fid_128 = "" THEN [acc EXCEPT !.fid_128 = "K128"] ELSE acc
                      ELSE IF ParsePayload(item)[1]
                           THEN [acc EXCEPT !.score = @ + 1,
                                            !.fid = ParsePayload(item)[2],
                                            !.patient = ParsePayload(item)[3]]
                           ELSE acc)

\* the loops over scaling factors and percentiles: attempts lists what the
\* decoder returns at each of them, st what the function holds so far
RECURSIVE TryAttempts(_, _)
TryAttempts(attempts, st) ==
    IF attempts = <<>>
    THEN [barcode_data |-> st.best_barcode_data, fid |-> st.fid,
          patient |-> st.patient, best_score |-> st.best_score,
          fid_128 |-> st.fid_128]
    ELSE LET scanned == ScanBarcodes(Head(attempts),
                            [score |-> 0, fid |-> st.fid, patient |-> st.patient,
                             fid_128 |-> st.fid_128])
         IN  IF scanned.score = 6
             THEN [barcode_data |-> Head(attempts), fid |-> scanned.fid,
                   patient |-> scanned.patient, best_score |-> scanned.score,
                   fid_128 |-> scanned.fid_128]
             ELSE TryAttempts(Tail(attempts),
                      [best_score |-> IF scanned.score > st.best_score
                                      THEN scanned.score ELSE st.best_score,
                       best_barcode_data |-> IF scanned.score > st.best_score
                                             THEN Head(attempts)
                                             ELSE st.best_barcode_data,
                       fid |-> scanned.fid, patient |-> scanned.patient,
                       fid_128 |-> scanned.fid_128])

try_extracting_fid_and_all_barcodes_with_linear_stretch_fh(attempts) ==
    TryAttempts(attempts,
                [best_score |-> -1, best_barcode_data |-> <<>>, fid |-> "",
                 patient |-> NoPatient, fid_128 |-> ""])

HasLabel(the_barcodes, label) ==
    \E i \in DOMAIN the_barcodes : the_barcodes[i] = label

\* is a box returned: a left and a right edge, a top and a bottom edge, and
\* extents_ok, which stands for x > x0, y > y0 and no median equal to -1
find_strip_box_from_barcode_data_fh(the_barcodes, extents_ok) ==
    /\ HasLabel(the_barcodes, "TL") \/ HasLabel(the_barcodes, "BL")
    /\ HasLabel(the_barcodes, "TR") \/ HasLabel(the_barcodes, "BR")
    /\ HasLabel(the_barcodes, "TL") \/ HasLabel(the_barcodes, "TR")
    /\ HasLabel(the_barcodes, "BL") \/ HasLabel(the_barcodes, "BR")
    /\ extents_ok

-----------------------------------------------------------------------------
(* Values of the variables of a machine that is not running *)

AmwIdle ==
    /\ profile = <<>>
    /\ valid_peaks = <<>>
    /\ valid_lower_bounds = <<>>
    /\ valid_upper_bounds = <<>>
    /\ band_signals = <<>>
    /\ merged_results = <<>>
    /\ amw_pc = "idle"

IbaIdle ==
    /\ peak_positions = <<>>
    /\ profile_length = 0
    /\ tolerance = 0
    /\ row_col = {}
    /\ bars = <<>>
    /\ iba_pc = "idle"

RunIdle ==
    /\ pc = "idle"
    /\ settings = <<>>
    /\ barcode_data = <<>>
    /\ best_score = 0
    /\ fid = ""
    /\ patient = <<>>
    /\ fid_128 = ""
    /\ box_found = FALSE
    /\ sensor = <<>>
    /\ window_results = <<>>
    /\ results_row = <<>>
    /\ row_data = <<>>
    /\ invoked = <<>>

PoolIdle ==
    /\ files = <<>>
    /\ futures = <<>>
    /\ res = <<>>
    /\ log_list = <<>>
    /\ pool_pc = "idle"
    /\ max_workers = 0

CallIdle ==
    /\ call_pc = "idle"
    /\ call_args = <<>>
    /\ call_result = <<>>

-----------------------------------------------------------------------------
(* SpecAnalysis: analyze_measurement_window, pass by pass *)

ProfLen == InteriorLen + 2 * BorderX

\* the profiles: zero in the border (np.zeros, never written there),
\* any intensity elsewhere
Profiles ==
    {[c \in 0..(ProfLen - 1) |->
        IF c < BorderX \/ c >= ProfLen - BorderX THEN 0 ELSE f[c]] :
     f \in [BorderX..(ProfLen - BorderX - 1) -> 0..MaxVal]}

\* the thresholds estimate_threshold_for_significant_peaks may return
Thresholds == {1, MaxVal}

InitAnalysis ==
    /\ profile \in Profiles
    /\ valid_peaks = <<>>
    /\ valid_lower_bounds = <<>>
    /\ valid_upper_bounds = <<>>
    /\ band_signals = <<>>
    /\ merged_results = <<>>
    /\ amw_pc = "profile"
    /\ IbaIdle
    /\ RunIdle
    /\ PoolIdle
    /\ CallIdle

\* lines 386-418: with the estimated threshold and the peak_width argument,
\* find the peaks, drop the weak ones, find the bounds
FindPeakBounds ==
    /\ amw_pc = "profile"
    /\ \E peak_threshold \in Thresholds, peak_width \in Range(peak_widths) :
          \E found \in {FindValidPeaks(profile, BorderX, peak_threshold, peak_width)} :
              /\ valid_peaks' = found[1]
              /\ valid_lower_bounds' = found[2]
              /\ valid_upper_bounds' = found[3]
    /\ amw_pc' = "bounds"
    /\ UNCHANGED <<profile, band_signals, merged_results>>
    /\ UNCHANGED <<iba_vars, run_vars, pool_vars, call_vars>>

\* lines 420-427: the overlap resolution pass
ResolveOverlap ==
    /\ amw_pc = "bounds"
    /\ \E resolved \in {ResolveOverlaps(valid_lower_bounds, valid_upper_bounds)} :
           /\ valid_lower_bounds' = resolved[1]
           /\ valid_upper_bounds' = resolved[2]
    /\ amw_pc' = "resolved"
    /\ UNCHANGED <<profile, valid_peaks, band_signals, merged_results>>
    /\ UNCHANGED <<iba_vars, run_vars, pool_vars, call_vars>>

\* lines 429-497: integrate, assign the peaks to the bands, merge, normalise
IntegrateAndAssign ==
    /\ amw_pc = "resolved"
    /\ \E signals \in {IntegrateSignals(profile, valid_peaks, valid_lower_bounds,
                                          valid_upper_bounds)} :
           /\ band_signals' = signals
           /\ \E b \in identify_bars_alt(valid_peaks, PLen(profile), sensor_band_names,
                                         peak_expected_relative_location,
                                         DefaultTolerance) :
                 merged_results' =
                     Normalize(MergeResults(b, valid_peaks, signals,
                                            valid_lower_bounds, valid_upper_bounds),
                               sensor_band_names, control_band_index)
    /\ amw_pc' = "done"
    /\ UNCHANGED <<profile, valid_peaks, valid_lower_bounds, valid_upper_bounds>>
    /\ UNCHANGED <<iba_vars, run_vars, pool_vars, call_vars>>

NextAnalysis == FindPeakBounds \/ ResolveOverlap \/ IntegrateAndAssign

SpecAnalysis == InitAnalysis /\ [][NextAnalysis]_vars

-----------------------------------------------------------------------------
(* Properties of analyze_measurement_window, under SpecAnalysis *)

\* C1: once analyze_measurement_window has returned, if the control band is
\* among the assigned bands, its normalized signal is exactly 1 and the
\* normalized signal of every other assigned band is that band's signal
\* divided by the control band's signal (a non-finite value when the control
\* band's signal is zero).
C1_NormalizedToControl ==
    (amw_pc = "done" /\ control_band_name \in DOMAIN merged_results) =>
        /\ merged_results[control_band_name].normalized_signal = One
        /\ \A bar \in DOMAIN merged_results \ {control_band_name} :
              LET q == merged_results[bar].normalized_signal
                  a == merged_results[bar].signal
                  b == merged_results[control_band_name].signal
              IN  IF b[1] = 0 THEN q[2] = 0
                  ELSE q[2] # 0 /\ q[1] * a[2] * b[1] = q[2] * a[1] * b[2]

\* C1, its case: the call returned the control band and another band, both
\* with a signal that is not zero, and their quotient is not 1
C1_Witness ==
    /\ amw_pc = "done"
    /\ control_band_name \in DOMAIN merged_results
    /\ \E bar \in DOMAIN merged_results \ {control_band_name} :
          /\ merged_results[bar].signal[1] # 0
          /\ merged_results[control_band_name].signal[1] # 0
          /\ merged_results[bar].normalized_signal # One

\* C2: after the overlap resolution pass, for every two consecutive accepted
\* peaks the upper bound of the left one is strictly less than the lower
\* bound of the right one, whatever find_peak_bounds had returned.
C2_NoOverlapAfterResolution ==
    amw_pc \in {"resolved", "done"} =>
        \A i \in 1..(Len(valid_peaks) - 1) :
            valid_upper_bounds[i] < valid_lower_bounds[i + 1]

\* C2, its case: the pass has run on two peaks whose bounds, as
\* find_peak_bounds returns them, overlap
C2_Witness ==
    /\ amw_pc = "resolved"
    /\ Len(valid_peaks) >= 2
    /\ find_peak_bounds(profile, BorderX, valid_peaks[1])[2]
          >= find_peak_bounds(profile, BorderX, valid_peaks[2])[1]

\* C7: for every accepted peak, border_x <= lower bound < peak < upper bound
\* <= len(profile) - border_x - 1, both as find_peak_bounds returns the
\* bounds and after the overlap resolution pass, and so for every band the
\* call reports.
C7_BoundsEnclosePeak ==
    /\ amw_pc \in {"bounds", "resolved", "done"} =>
          \A k \in DOMAIN valid_peaks :
              /\ BorderX <= valid_lower_bounds[k]
              /\ valid_lower_bounds[k] < valid_peaks[k]
              /\ valid_peaks[k] < valid_upper_bounds[k]
              /\ valid_upper_bounds[k] <= PLen(profile) - BorderX - 1
    /\ amw_pc = "done" =>
          \A bar \in DOMAIN merged_results :
              /\ BorderX <= merged_results[bar].lower_bound
              /\ merged_results[bar].lower_bound < merged_results[bar].peak_pos
              /\ merged_results[bar].peak_pos < merged_results[bar].upper_bound
              /\ merged_results[bar].upper_bound <= PLen(profile) - BorderX - 1

\* C7, the part that holds: the bounds as find_peak_bounds returns them
C7_BoundsEnclosePeakBeforeResolution ==
    amw_pc = "bounds" =>
        \A k \in DOMAIN valid_peaks :
            /\ BorderX <= valid_lower_bounds[k]
            /\ valid_lower_bounds[k] < valid_peaks[k]
            /\ valid_peaks[k] < valid_upper_bounds[k]
            /\ valid_upper_bounds[k] <= PLen(profile) - BorderX - 1

\* C7, the integration width upper - lower + 1 of a reported band is never
\* zero or negative
C7_PositiveWidth ==
    amw_pc = "done" =>
        \A bar \in DOMAIN merged_results :
            merged_results[bar].upper_bound - merged_results[bar].lower_bound + 1 > 0

-----------------------------------------------------------------------------
(* SpecBars: identify_bars_alt on the peak lists of the unit tests and more *)

TestProfileLength == 250

\* peak positions taken from test_bands_assignments, and 185 between two of them
PeakGrid == {30, 60, 80, 100, 160, 170, 180, 185, 190, 195}

Tolerances == {DefaultTolerance \div 2, DefaultTolerance}

\* lists of distinct positions, in any order
PeakLists ==
    UNION {{q \in [1..n -> PeakGrid] : \A i, j \in 1..n : q[i] = q[j] => i = j} :
           n \in 0..MaxPeaks}

InitBars ==
    /\ peak_positions \in PeakLists
    /\ profile_length = TestProfileLength
    /\ tolerance \in Tolerances
    /\ row_col = {}
    /\ bars = <<>>
    /\ iba_pc = "call"
    /\ AmwIdle
    /\ RunIdle
    /\ PoolIdle
    /\ CallIdle

\* the call: the assignment, then the dictionary of the pairs within tolerance
IdentifyBars ==
    /\ iba_pc = "call"
    /\ \E d \in {dists(peak_positions, profile_length, peak_expected_relative_location)} :
         \E m \in linear_sum_assignment(d, Len(peak_expected_relative_location),
                                         Len(peak_positions)) :
             /\ row_col' = m
             /\ bars' = BarsOf(m, d, sensor_band_names, profile_length, tolerance)
    /\ iba_pc' = "return"
    /\ UNCHANGED <<peak_positions, profile_length, tolerance>>
    /\ UNCHANGED <<amw_vars, run_vars, pool_vars, call_vars>>

NextBars == IdentifyBars

SpecBars == InitBars /\ [][NextBars]_vars

-----------------------------------------------------------------------------
(* Properties of identify_bars_alt, under SpecBars *)

C6_CloserControlCandidateWins ==
    iba_pc = "return" =>
        LET ctl == control_band_index
            far(c) == Abs(peak_expected_relative_location[ctl] * profile_length
                          - 100 * peak_positions[c])
            candidates == {c \in DOMAIN peak_positions : far(c) <= tolerance * profile_length}
        IN  /\ \A c \in candidates :
                  (/\ Cardinality(candidates) >= 2
                   /\ \A o \in candidates \ {c} : far(c) < far(o))
                  => (/\ control_band_name \in DOMAIN bars
                      /\ bars[control_band_name] = c - 1)
            /\ (peak_positions = <<60, 190, 195>> /\ tolerance = DefaultTolerance)
                  => bars = [band \in {"igg", "ctl"} |-> IF band = "igg" THEN 0 ELSE 1]
            /\ (peak_positions = <<60, 180, 190>> /\ tolerance = DefaultTolerance)
                  => bars = [band \in {"igg", "ctl"} |-> IF band = "igg" THEN 0 ELSE 2]

\* C6, the rule alone, without the two examples
C6_CloserWinsRule ==
    iba_pc = "return" =>
        LET ctl == control_band_index
            far(c) == Abs(peak_expected_relative_location[ctl] * profile_length
                          - 100 * peak_positions[c])
            candidates == {c \in DOMAIN peak_positions : far(c) <= tolerance * profile_length}
        IN  \A c \in candidates :
                (/\ Cardinality(candidates) >= 2
                 /\ \A o \in candidates \ {c} : far(c) < far(o))
                => (/\ control_band_name \in DOMAIN bars
                    /\ bars[control_band_name] = c - 1)

\* C6, the first example alone
C6_Example190 ==
    (iba_pc = "return" /\ peak_positions = <<60, 190, 195>>
        /\ tolerance = DefaultTolerance)
    => bars = [band \in {"igg", "ctl"} |-> IF band = "igg" THEN 0 ELSE 1]

\* C6, the second example alone
C6_Example180 ==
    (iba_pc = "return" /\ peak_positions = <<60, 180, 190>>
        /\ tolerance = DefaultTolerance)
    => bars = [band \in {"igg", "ctl"} |-> IF band = "igg" THEN 0 ELSE 2]

-----------------------------------------------------------------------------
(* Spec: run() of lib/pipeline.py, one image through the stages *)

\* The record of run(); the columns of a band are kept per band: present is
\* the column named after the band, abs its _abs and ratio its _ratio
\* column. The columns that only copy the file's name and metadata are left
\* out.
InitialRow ==
    [fid |-> "", manufacturer |-> "", plate |-> "", well |-> "",
     issue |-> Issue.NONE,
     present |-> [b \in Bands |-> 0],
     abs |-> [b \in Bands |-> Zero],
     ratio |-> [b \in Bands |-> Zero]]

\* new_x if x == "" and new_x != "" else x
KeepOrTake(old, new) == IF old = "" /\ new # "" THEN new ELSE old

\* variant: a missing FID is only logged
LogMissingFid(row, the_fid) == row

\* "if fid == ''": the issue is tagged and the analysis proceeds
TagMissingFid(row, the_fid) ==
    IF the_fid = "" THEN [row EXCEPT !.issue = Issue.FID_EXTRACTION_FAILED] ELSE row

\* "Store patient data into the results"; the key user is created here
StorePatient(row, the_fid, the_patient) ==
    [user |-> the_patient.user] @@
    [row EXCEPT !.fid = the_fid,
                !.manufacturer = the_patient.manufacturer,
                !.plate = the_patient.plate,
                !.well = the_patient.well]

\* the loop over peak_widths: the pairs <<window_results, widths tried>> it
\* may end with; last is the window_results held so far
RECURSIVE AnalyzeWithWidths(_, _, _, _, _, _)
AnalyzeWithWidths(p, border, peak_threshold, widths, last, tried) ==
    IF widths = <<>> THEN {<<last, tried>>}
    ELSE UNION {IF control_band_name \in DOMAIN r
                THEN {<<r, Append(tried, Head(widths))>>}
                ELSE AnalyzeWithWidths(p, border, peak_threshold, Tail(widths), r,
                                       Append(tried, Head(widths))) :
                r \in analyze_measurement_window(p, border, peak_threshold,
                                                 Head(widths))}

\* variant: a missing control band is not flagged
RecordBandsUnflagged(row, results) ==
    [row EXCEPT
        !.present = [b \in Bands |-> IF b \in DOMAIN results THEN 1 ELSE @[b]],
        !.abs = [b \in Bands |-> IF b \in DOMAIN results THEN results[b].signal ELSE @[b]],
        !.ratio = [b \in Bands |->
                      IF b \in DOMAIN results THEN results[b].normalized_signal ELSE @[b]]]

\* the band columns from window_results: the control band first, or the
\* issue if it is missing, then the other bands
RecordBands(row, results) ==
    [row EXCEPT
        !.issue = IF control_band_name \in DOMAIN results
                  THEN @ ELSE Issue.CONTROL_BAND_MISSING,
        !.present = [b \in Bands |-> IF b \in DOMAIN results THEN 1 ELSE @[b]],
        !.abs = [b \in Bands |-> IF b \in DOMAIN results THEN results[b].signal ELSE @[b]],
        !.ratio = [b \in Bands |->
                      IF b \in DOMAIN results THEN results[b].normalized_signal ELSE @[b]]]

\* 0-based array of a list
Array(list) == [c \in 0..(Len(list) - 1) |-> list[c + 1]]

\* What the decoder may return over the attempts of one call
DecodeRuns ==
    { << <<>> >>,
      << <<"TL", "BR">> >>,
      << <<"TL", "TR", "BL">> >>,
      << <<"TL", "TL", "TL">> >>,
      << <<"TL", "TR", "BL", "BR", "TL_P", "FULL">> >>,
      << <<"TL", "TR", "BL", "BR", "C128">> >>,
      << <<"F7">>, <<"TL", "TR", "BL", "BR">> >> }

\* Sensor profiles: two narrow bands, one narrow band off the control
\* position, no band, one wide control band
SensorProfiles ==
    { Array(<<0, 0, 0, 0, 3, 2, 3, 0, 0>>),
      Array(<<0, 0, 0, 0, 1, 1, 1, 0, 0>>),
      Array(<<0, 0, 0, 0, 0, 0, 0, 0, 0>>),
      Array(<<0, 0, 0, 0, 0, 0, 0, 0, 0, 0, 0, 3, 3, 3, 3, 3, 3, 3, 0, 0, 0>>) }

\* sensor scores, in hundredths: get_sensor_contour_fh returns 0.0 or 1.0
SensorScores == {0, 100}

SettingsSet ==
    [force_fid_search : BOOLEAN,
     strip_try_correct_orientation : BOOLEAN,
     strip_text_to_search : {"", "COVID"},
     perform_sensor_search : BOOLEAN,
     min_sensor_score : {0, 85}]

Init ==
    /\ pc = "load"
    /\ settings \in SettingsSet
    /\ barcode_data = <<>>
    /\ best_score = 0
    /\ fid = ""
    /\ patient = NoPatient
    /\ fid_128 = ""
    /\ box_found = FALSE
    /\ sensor = <<>>
    /\ window_results = <<>>
    /\ results_row = <<>>
    /\ row_data = <<>>
    /\ invoked = <<>>
    /\ AmwIdle
    /\ IbaIdle
    /\ PoolIdle
    /\ CallIdle

\* "return row_data, image_log" with a copy of the record
ReturnRow(row) ==
    /\ results_row' = row
    /\ row_data' = row
    /\ pc' = "returned"

\* lines 566-615: load the image, set up the record
LoadImage ==
    /\ pc = "load"
    /\ \E loaded \in BOOLEAN :
          /\ invoked' = Append(invoked, <<"load_and_process_image", loaded>>)
          /\ IF loaded
             THEN /\ results_row' = InitialRow
                  /\ pc' = "decode"
                  /\ UNCHANGED row_data
             ELSE /\ pc' = "returned"
                  /\ UNCHANGED <<results_row, row_data>>
    /\ UNCHANGED <<settings, barcode_data, best_score, fid, patient, fid_128,
                   box_found, sensor, window_results>>
    /\ UNCHANGED <<amw_vars, iba_vars, pool_vars, call_vars>>

\* lines 617-642: the first decode and the check of its score
Decode ==
    /\ pc = "decode"
    /\ \E attempts \in DecodeRuns :
          LET r == try_extracting_fid_and_all_barcodes_with_linear_stretch_fh(attempts)
          IN  /\ barcode_data' = r.barcode_data
              /\ fid' = r.fid
              /\ patient' = r.patient
              /\ best_score' = r.best_score
              /\ fid_128' = r.fid_128
              /\ invoked' = Append(invoked, <<"decode", r.best_score, r.fid, r.fid_128>>)
              /\ IF r.best_score < 3
                 THEN ReturnRow([results_row EXCEPT
                                    !.issue = Issue.STRIP_BOX_EXTRACTION_FAILED])
                 ELSE /\ pc' = "rotate"
                      /\ UNCHANGED <<results_row, row_data>>
    /\ UNCHANGED <<settings, box_found, sensor, window_results>>
    /\ UNCHANGED <<amw_vars, iba_vars, pool_vars, call_vars>>

\* rotate_if_needed_fh returns only if TR and a code of each of the other
\* corners were decoded (RotateReturnsIffCornersDecoded, under SpecRotate)
CornersDecoded(the_barcodes) ==
    /\ HasLabel(the_barcodes, "TR")
    /\ HasLabel(the_barcodes, "TL") \/ HasLabel(the_barcodes, "TL_P")
    /\ HasLabel(the_barcodes, "BL") \/ HasLabel(the_barcodes, "L_G")
    /\ HasLabel(the_barcodes, "BR") \/ HasLabel(the_barcodes, "R_G")

\* line 645, rotate_if_needed_fh raises TypeError: run() has no handler, the
\* exception leaves it
RotateRaises ==
    /\ pc = "rotate"
    /\ ~CornersDecoded(barcode_data)
    /\ invoked' = Append(invoked, <<"rotate_if_needed_fh", "TypeError">>)
    /\ pc' = "raised"
    /\ UNCHANGED <<settings, barcode_data, best_score, fid, patient, fid_128,
                   box_found, sensor, window_results, results_row, row_data>>
    /\ UNCHANGED <<amw_vars, iba_vars, pool_vars, call_vars>>

\* lines 644-695: rotate the image if needed and, if it was rotated, decode
\* again; the new score is only logged
RotateIfNeeded ==
    /\ pc = "rotate"
    /\ CornersDecoded(barcode_data)
    /\ \E image_was_rotated \in BOOLEAN, attempts \in DecodeRuns :
          LET r == try_extracting_fid_and_all_barcodes_with_linear_stretch_fh(attempts)
              kept == KeepOrTake(fid, r.fid)
              from_128 == IF kept = "" /\ fid_128 # "" THEN fid_128 ELSE kept
          IN  IF image_was_rotated
              THEN /\ barcode_data' = r.barcode_data
                   /\ fid' = IF from_128 = "" /\ r.fid_128 # "" THEN r.fid_128
                             ELSE from_128
                   /\ patient' =
                         [manufacturer |-> KeepOrTake(patient.manufacturer,
                                                      r.patient.manufacturer),
                          plate |-> KeepOrTake(patient.plate, r.patient.plate),
                          well |-> KeepOrTake(patient.well, r.patient.well),
                          user |-> KeepOrTake(patient.user, r.patient.user)]
                   /\ invoked' = invoked \o <<<<"rotate_if_needed_fh", TRUE>>,
                                               <<"decode", r.best_score, r.fid, r.fid_128>>>>
              ELSE /\ invoked' = Append(invoked, <<"rotate_if_needed_fh", FALSE>>)
                   /\ UNCHANGED <<barcode_data, fid, patient>>
    /\ pc' = "align"
    /\ UNCHANGED <<settings, best_score, fid_128, box_found, sensor,
                   window_results, results_row, row_data>>
    /\ UNCHANGED <<amw_vars, iba_vars, pool_vars, call_vars>>

\* lines 697-726: align the box with the image border and, if the angle was
\* above 0.5 degrees, decode once more
AlignBox ==
    /\ pc = "align"
    /\ \E significant \in BOOLEAN, attempts \in DecodeRuns :
          LET r == try_extracting_fid_and_all_barcodes_with_linear_stretch_fh(attempts)
          IN  IF significant
              THEN /\ barcode_data' = r.barcode_data
                   /\ best_score' = r.best_score
                   /\ fid_128' = r.fid_128
                   /\ invoked' = invoked \o <<<<"align_box_with_image_border_fh", TRUE>>,
                                               <<"decode", r.best_score, r.fid, r.fid_128>>>>
              ELSE /\ invoked' = Append(invoked, <<"align_box_with_image_border_fh", FALSE>>)
                   /\ UNCHANGED <<barcode_data, best_score, fid_128>>
    /\ pc' = "box"
    /\ UNCHANGED <<settings, fid, patient, box_found, sensor, window_results,
                   results_row, row_data>>
    /\ UNCHANGED <<amw_vars, iba_vars, pool_vars, call_vars>>

\* lines 728-742: the strip box from the barcodes
FindStripBox ==
    /\ pc = "box"
    /\ \E extents_ok \in BOOLEAN :
          LET found == find_strip_box_from_barcode_data_fh(barcode_data, extents_ok)
          IN  /\ box_found' = found
              /\ invoked' = Append(invoked, <<"find_strip_box_from_barcode_data_fh", found>>)
              /\ IF found
                 THEN /\ pc' = "fid"
                      /\ UNCHANGED <<results_row, row_data>>
                 ELSE ReturnRow([results_row EXCEPT
                                    !.issue = Issue.STRIP_BOX_EXTRACTION_FAILED])
    /\ UNCHANGED <<settings, barcode_data, best_score, fid, patient, fid_128,
                   sensor, window_results>>
    /\ UNCHANGED <<amw_vars, iba_vars, pool_vars, call_vars>>

\* lines 755-814: the fallbacks for a missing FID, the issue if it is still
\* missing, the patient data into the record
FindFid ==
    /\ pc = "fid"
    /\ \E from_rgb \in {"", "R128"}, from_box \in {"", "B128"},
          from_ocr \in {"", "F7654321"}, ocr_manufacturer \in {"", "OCRM"} :
          LET force == settings.force_fid_search
              try_rgb == fid = "" /\ fid_128 = "" /\ force
              fid1 == IF fid # "" THEN fid
                      ELSE IF fid_128 # "" THEN fid_128
                      ELSE IF force THEN from_rgb ELSE ""
              try_box == fid1 = "" /\ force
              fid2 == IF try_box THEN from_box ELSE fid1
              try_ocr == fid2 = "" /\ force
              fid3 == IF try_ocr THEN from_ocr ELSE fid2
              patient3 == IF try_ocr
                          THEN [patient EXCEPT !.manufacturer =
                                   KeepOrTake(@, ocr_manufacturer)]
                          ELSE patient
          IN  /\ fid' = fid3
              /\ patient' = patient3
              /\ results_row' = StorePatient(TagMissingFid(results_row, fid3),
                                             fid3, patient3)
              /\ invoked' = invoked
                    \o (IF try_rgb THEN <<<<"try_get_fid_from_rgb", TRUE>>>> ELSE <<>>)
                    \o (IF try_box
                        THEN <<<<"try_extracting_barcode_from_box_with_rotations", TRUE>>>>
                        ELSE <<>>)
                    \o (IF try_ocr THEN <<<<"read_patient_data_by_ocr", TRUE>>>> ELSE <<>>)
    /\ pc' = "strip"
    /\ UNCHANGED <<settings, barcode_data, best_score, fid_128, box_found, sensor,
                   window_results, row_data>>
    /\ UNCHANGED <<amw_vars, iba_vars, pool_vars, call_vars>>

\* variant: a strip that could not be extracted does not end the run
ExtractStripContinuing ==
    /\ pc = "strip"
    /\ \E extracted \in BOOLEAN :
          /\ invoked' = Append(invoked, <<"extract_rotated_strip_from_box", extracted>>)
          /\ results_row' = IF extracted THEN results_row
                            ELSE [results_row EXCEPT
                                     !.issue = Issue.STRIP_EXTRACTION_FAILED]
    /\ pc' = "orient"
    /\ UNCHANGED <<settings, barcode_data, best_score, fid, patient, fid_128,
                   box_found, sensor, window_results, row_data>>
    /\ UNCHANGED <<amw_vars, iba_vars, pool_vars, call_vars>>

\* lines 818-832: crop the strip from the box
ExtractStrip ==
    /\ pc = "strip"
    /\ \E extracted \in BOOLEAN :
          /\ invoked' = Append(invoked, <<"extract_rotated_strip_from_box", extracted>>)
          /\ IF extracted
             THEN /\ pc' = "orient"
                  /\ UNCHANGED <<results_row, row_data>>
             ELSE ReturnRow([results_row EXCEPT
                                !.issue = Issue.STRIP_EXTRACTION_FAILED])
    /\ UNCHANGED <<settings, barcode_data, best_score, fid, patient, fid_128,
                   box_found, sensor, window_results>>
    /\ UNCHANGED <<amw_vars, iba_vars, pool_vars, call_vars>>

\* lines 847-898: the two optional corrections of the strip's orientation
CorrectOrientation ==
    /\ pc = "orient"
    /\ invoked' = invoked
          \o (IF settings.strip_try_correct_orientation
              THEN <<<<"use_hough_transform_to_rotate_strip_if_needed", TRUE>>>>
              ELSE <<>>)
          \o (IF settings.strip_text_to_search # ""
              THEN <<<<"use_ocr_to_rotate_strip_if_needed", TRUE>>>>
              ELSE <<>>)
    /\ pc' = "sensor"
    /\ UNCHANGED <<settings, barcode_data, best_score, fid, patient, fid_128,
                   box_found, sensor, window_results, results_row, row_data>>
    /\ UNCHANGED <<amw_vars, iba_vars, pool_vars, call_vars>>

\* lines 900-935: the sensor, searched for or cut out at its nominal place;
\* an empty profile stands for a sensor with a zero dimension
ExtractSensor ==
    /\ pc = "sensor"
    /\ \E p \in SensorProfiles \cup {<<>>}, score \in SensorScores :
          LET sensor_score == IF settings.perform_sensor_search THEN score ELSE 100
          IN  /\ sensor' = [profile |-> p, score |-> sensor_score]
              /\ invoked' = Append(invoked,
                                   <<IF settings.perform_sensor_search
                                     THEN "get_sensor_contour_fh"
                                     ELSE "extract_inverted_sensor", p # <<>> >>)
              /\ IF p = <<>>
                 THEN ReturnRow([results_row EXCEPT
                                    !.issue = Issue.SENSOR_EXTRACTION_FAILED])
                 ELSE /\ pc' = "quantify"
                      /\ UNCHANGED <<results_row, row_data>>
    /\ UNCHANGED <<settings, barcode_data, best_score, fid, patient, fid_128,
                   box_found, window_results>>
    /\ UNCHANGED <<amw_vars, iba_vars, pool_vars, call_vars>>

\* lines 949-1032: analyse the sensor if its score allows it, with the
\* normal peak width and then the narrow one, record the bands, return
Quantify ==
    /\ pc = "quantify"
    /\ IF sensor.score >= settings.min_sensor_score
       THEN \E peak_threshold \in Thresholds :
              \E done \in AnalyzeWithWidths(sensor.profile, BorderX, peak_threshold,
                                             peak_widths, <<>>, <<>>) :
                 /\ window_results' = done[1]
                 /\ invoked' = invoked \o
                       [k \in DOMAIN done[2] |->
                           <<"analyze_measurement_window", done[2][k]>>]
                 /\ ReturnRow(RecordBands(results_row, done[1]))
       ELSE /\ ReturnRow([results_row EXCEPT
                              !.issue = Issue.SENSOR_EXTRACTION_FAILED])
            /\ UNCHANGED <<window_results, invoked>>
    /\ UNCHANGED <<settings, barcode_data, best_score, fid, patient, fid_128,
                   box_found, sensor>>
    /\ UNCHANGED <<amw_vars, iba_vars, pool_vars, call_vars>>

Next ==
    \/ LoadImage
    \/ Decode
    \/ RotateIfNeeded
    \/ RotateRaises
    \/ AlignBox
    \/ FindStripBox
    \/ FindFid
    \/ ExtractStrip
    \/ CorrectOrientation
    \/ ExtractSensor
    \/ Quantify

Spec == Init /\ [][Next]_vars

-----------------------------------------------------------------------------
(* Properties of run(), under Spec *)

\* C3: every decode of the image (the first one, the one after the rotation,
\* the one after the alignment) that ends with a score below 3 makes the run
\* end with issue STRIP_BOX_EXTRACTION_FAILED, and neither the box
\* extraction nor the strip extraction, the sensor extraction or the
\* quantification is invoked after it.
C3_LowScoreEndsRun ==
    \A i \in DOMAIN invoked :
        (invoked[i][1] = "decode" /\ invoked[i][2] < 3) =>
            /\ \A j \in DOMAIN invoked :
                  j > i => invoked[j][1] \notin
                              {"find_strip_box_from_barcode_data_fh",
                               "extract_rotated_strip_from_box",
                               "get_sensor_contour_fh", "extract_inverted_sensor",
                               "analyze_measurement_window"}
            /\ pc = "returned" => row_data.issue = Issue.STRIP_BOX_EXTRACTION_FAILED

\* C3, the part that holds: the first decode
C3_FirstDecodeLowScoreEndsRun ==
    (Len(invoked) >= 2 /\ invoked[2][1] = "decode" /\ invoked[2][2] < 3) =>
        /\ Len(invoked) = 2
        /\ pc = "returned"
        /\ row_data.issue = Issue.STRIP_BOX_EXTRACTION_FAILED

\* C8: if the control band is not among the bands analyze_measurement_window
\* assigned, every band of its result has normalized signal 0, and run()
\* returns a record with issue CONTROL_BAND_MISSING whose ratio columns are
\* all 0, the presence flag and the abs column of every band found being
\* recorded all the same.
C8_ControlBandMissing ==
    (/\ pc = "returned"
     /\ \E i \in DOMAIN invoked : invoked[i][1] = "analyze_measurement_window"
     /\ control_band_name \notin DOMAIN window_results) =>
        /\ \A b \in DOMAIN window_results : window_results[b].normalized_signal = Zero
        /\ row_data.issue = Issue.CONTROL_BAND_MISSING
        /\ \A b \in Bands : row_data.ratio[b] = Zero
        /\ \A b \in Bands :
              IF b \in DOMAIN window_results
              THEN row_data.present[b] = 1 /\ row_data.abs[b] = window_results[b].signal
              ELSE row_data.present[b] = 0 /\ row_data.abs[b] = Zero

\* C8, its case: the run returned after an analysis that found a band with a
\* signal, but not the control band
C8_Witness ==
    /\ pc = "returned"
    /\ \E i \in DOMAIN invoked : invoked[i][1] = "analyze_measurement_window"
    /\ control_band_name \notin DOMAIN window_results
    /\ \E b \in DOMAIN window_results : window_results[b].signal # Zero

\* C9: when the box extraction fails the record is tagged
\* STRIP_BOX_EXTRACTION_FAILED, when the strip extraction fails it is tagged
\* STRIP_EXTRACTION_FAILED; either way run() returns at once: nothing is
\* invoked afterwards and every band column keeps its initial value 0.
C9_BoxOrStripFailureEndsRun ==
    \A i \in DOMAIN invoked :
        (/\ invoked[i][1] \in {"find_strip_box_from_barcode_data_fh",
                               "extract_rotated_strip_from_box"}
         /\ invoked[i][2] = FALSE) =>
            /\ i = Len(invoked)
            /\ pc = "returned"
            /\ row_data.issue =
                  IF invoked[i][1] = "find_strip_box_from_barcode_data_fh"
                  THEN Issue.STRIP_BOX_EXTRACTION_FAILED
                  ELSE Issue.STRIP_EXTRACTION_FAILED
            /\ \A b \in Bands :
                  /\ row_data.present[b] = 0
                  /\ row_data.abs[b] = Zero
                  /\ row_data.ratio[b] = Zero

\* C9, its case: the strip could not be cut out of a box that was found
C9_Witness ==
    /\ pc = "returned"
    /\ box_found
    /\ invoked[Len(invoked)] = <<"extract_rotated_strip_from_box", FALSE>>

\* C9, its other case: no box could be formed from the barcodes
C9_WitnessBox ==
    /\ pc = "returned"
    /\ Len(invoked) >= 1
    /\ invoked[Len(invoked)] = <<"find_strip_box_from_barcode_data_fh", FALSE>>

\* C10 as amended: if the FID is still empty after all fallbacks, run() tags
\* the record FID_EXTRACTION_FAILED and goes on to the strip extraction
\* instead of returning; the record it returns carries the issue of the last
\* stage that set one: STRIP_EXTRACTION_FAILED if the strip could not be
\* extracted, SENSOR_EXTRACTION_FAILED if the sensor is empty or its score
\* too low, CONTROL_BAND_MISSING if the control band was not found, and
\* FID_EXTRACTION_FAILED only if none of these happened.
C10_MissingFidNotFatal ==
    /\ (pc = "strip" /\ fid = "") =>
          results_row.issue = Issue.FID_EXTRACTION_FAILED
    /\ (pc = "returned" /\ box_found /\ fid = "") =>
          row_data.issue =
              IF invoked[Len(invoked)] = <<"extract_rotated_strip_from_box", FALSE>>
              THEN Issue.STRIP_EXTRACTION_FAILED
              ELSE IF sensor.profile = <<>> \/ sensor.score < settings.min_sensor_score
                   THEN Issue.SENSOR_EXTRACTION_FAILED
                   ELSE IF control_band_name \notin DOMAIN window_results
                        THEN Issue.CONTROL_BAND_MISSING
                        ELSE Issue.FID_EXTRACTION_FAILED

\* C10, its case: no FID, and the run went through the quantification and
\* returned the record with the control band found
C10_Witness ==
    /\ pc = "returned"
    /\ box_found
    /\ fid = ""
    /\ \E i \in DOMAIN invoked : invoked[i][1] = "analyze_measurement_window"
    /\ control_band_name \in DOMAIN window_results
    /\ row_data.issue = Issue.FID_EXTRACTION_FAILED

\* C10 as stated: if the FID is still empty after all fallbacks, run() goes
\* on through strip extraction, sensor extraction and quantification, and
\* the record it returns is tagged FID_EXTRACTION_FAILED.
C10_MissingFidTagged ==
    (pc = "returned" /\ box_found /\ fid = "") =>
        /\ \E i \in DOMAIN invoked : invoked[i][1] = "analyze_measurement_window"
        /\ row_data.issue = Issue.FID_EXTRACTION_FAILED

\* the records that lines 949-1032 may return for a sensor, by the value
\* of min_sensor_score and the threshold of the peaks
QuantifiedRows(row, the_sensor, min_sensor_score, peak_threshold) ==
    IF the_sensor.score >= min_sensor_score
    THEN {RecordBands(row, done[1]) :
             done \in AnalyzeWithWidths(the_sensor.profile, BorderX, peak_threshold,
                                        peak_widths, <<>>, <<>>)}
    ELSE {[row EXCEPT !.issue = Issue.SENSOR_EXTRACTION_FAILED]}

\* Quantify returns one of these records
QuantifyReturnsQuantifiedRow ==
    [][Quantify =>
          \E peak_threshold \in Thresholds :
              row_data' \in QuantifiedRows(results_row, sensor,
                                           settings.min_sensor_score, peak_threshold)]_vars

\* values of min_sensor_score in [0, 1], in hundredths
MinSensorScores == {0, 85, 100}

\* C18: min_sensor_score is ignored: for the same image and the same other
\* settings, the record that run() returns (issue and band values) is the
\* same for every value of min_sensor_score in [0, 1], also when the sensor
\* search gave the score 0.0.
C18_MinSensorScoreIgnored ==
    pc = "quantify" =>
        \A min_sensor_score \in MinSensorScores, peak_threshold \in Thresholds :
            QuantifiedRows(results_row, sensor, min_sensor_score, peak_threshold)
                = QuantifiedRows(results_row, sensor, settings.min_sensor_score,
                                 peak_threshold)

\* C18, the part that holds: when the sensor was not searched for, or the
\* search found the control bar (score 1.0), the record is the same for
\* every value of min_sensor_score in [0, 1]
C18_IgnoredAtFullScore ==
    (pc = "quantify" /\ sensor.score = 100) =>
        \A min_sensor_score \in MinSensorScores, peak_threshold \in Thresholds :
            QuantifiedRows(results_row, sensor, min_sensor_score, peak_threshold)
                = QuantifiedRows(results_row, sensor, settings.min_sensor_score,
                                 peak_threshold)

\* the search gave 0.0: the sensor is analysed if min_sensor_score is 0 and
\* dropped with SENSOR_EXTRACTION_FAILED if it is above 0
C18_DroppedBelowMinimum ==
    (pc = "returned" /\ Len(invoked) > 0
        /\ invoked[Len(invoked)] = <<"get_sensor_contour_fh", TRUE>>) =>
            /\ sensor.score = 0
            /\ settings.min_sensor_score > 0
            /\ row_data.issue = Issue.SENSOR_EXTRACTION_FAILED

\* the keys of the record of a full analysis
RecordKeys ==
    {"fid", "manufacturer", "plate", "well", "user", "issue",
     "present", "abs", "ratio"}

\* C17: every non-empty record that run() returns has the same keys,
\* whatever the stage at which the run ended: the metadata keys, user and
\* issue included, and the three columns of every configured band.
C17_SameKeysAtEveryStage ==
    (pc = "returned" /\ DOMAIN row_data # {}) =>
        /\ DOMAIN row_data = RecordKeys
        /\ DOMAIN row_data.present = Bands
        /\ DOMAIN row_data.abs = Bands
        /\ DOMAIN row_data.ratio = Bands

\* C17, the part that holds: the columns of every band and all the keys but
\* user are in every returned record; user is in the record exactly when
\* the run went past the strip box
C17_KeysButUser ==
    (pc = "returned" /\ DOMAIN row_data # {}) =>
        /\ DOMAIN row_data \cup {"user"} = RecordKeys
        /\ "user" \in DOMAIN row_data <=> box_found
        /\ DOMAIN row_data.present = Bands
        /\ DOMAIN row_data.abs = Bands
        /\ DOMAIN row_data.ratio = Bands

-----------------------------------------------------------------------------
(* SpecDecode: one call of                                                   *)
(* try_extracting_fid_and_all_barcodes_with_linear_stretch_fh, with the      *)
(* attempts it makes over scaling factors and percentiles and the geometry   *)
(* of the barcodes it returns. Scaling factors are in quarters: 1 is 0.25,   *)
(* 2 is 0.5, 4 is 1.0.                                                       *)

UnitScale == 4

\* the column of a barcode in the full-resolution image; multiples of 4, so
\* that no resize of the model rounds
LeftOf(data) ==
    CASE data = "TL" -> 40 [] data = "TR" -> 400 [] data = "BL" -> 48
      [] data = "BR" -> 408 [] data = "TL_P" -> 120 [] OTHER -> 200

\* the attempts in the order of the loops: scaling factor, lb, ub
AttemptOrder(scaling, lower_bound_range, upper_bound_range) ==
    [k \in 1..(Len(scaling) * Len(lower_bound_range) * Len(upper_bound_range)) |->
        [scaling_factor |->
            scaling[((k - 1) \div (Len(lower_bound_range) * Len(upper_bound_range))) + 1],
         scale_index |->
            ((k - 1) \div (Len(lower_bound_range) * Len(upper_bound_range))) + 1,
         lb |-> lower_bound_range[(((k - 1) \div Len(upper_bound_range))
                                      % Len(lower_bound_range)) + 1],
         ub |-> upper_bound_range[((k - 1) % Len(upper_bound_range)) + 1]]]

\* gray_resized at the attempts of scaling[i]: it is assigned only "if
\* scaling_factor != 1.0", so it is the image resized by the last factor
\* other than 1.0, and 0 (not bound to a value) if there was none yet
RECURSIVE gray_resized(_, _)
gray_resized(scaling, i) ==
    IF i = 0 THEN 0
    ELSE IF scaling[i] # UnitScale THEN scaling[i]
    ELSE gray_resized(scaling, i - 1)

\* decode(stretched_gray): the barcodes, with their column in the image that
\* was decoded, which is the full-resolution image resized by resized_by
decode(datas, resized_by) ==
    [i \in DOMAIN datas |->
        [data |-> datas[i], left |-> (LeftOf(datas[i]) * resized_by) \div UnitScale]]

\* Barcode.from_barcode and Barcode.scale(1 / scaling_factor) on every barcode
ScaledBarcodes(the_barcodes, scaling_factor) ==
    [i \in DOMAIN the_barcodes |->
        [the_barcodes[i] EXCEPT !.left = (@ * UnitScale) \div scaling_factor]]

\* the loops of the function from attempt k on; decoded[k] lists the data of
\* the barcodes the decoder finds at attempt k, st is what the function holds
RECURSIVE StretchLoop(_, _, _, _, _)
StretchLoop(scaling, order, decoded, k, st) ==
    IF k > Len(order)
    THEN [raised |-> "",
          barcodes |-> ScaledBarcodes(st.best_barcode_data, st.best_scaling_factor),
          fid |-> st.fid, patient |-> st.patient,
          lb |-> st.best_lb, ub |-> st.best_ub, score |-> st.best_score,
          scaling_factor |-> st.best_scaling_factor, fid_128 |-> st.fid_128,
          attempt |-> st.best_attempt]
    ELSE IF gray_resized(scaling, order[k].scale_index) = 0
    THEN [raised |-> "UnboundLocalError"]
    ELSE LET found == decode(decoded[k],
                                    gray_resized(scaling, order[k].scale_index))
             scanned == ScanBarcodes(decoded[k],
                            [score |-> 0, fid |-> st.fid, patient |-> st.patient,
                             fid_128 |-> st.fid_128])
         IN  IF scanned.score = 6
             THEN [raised |-> "",
                   barcodes |-> ScaledBarcodes(found, order[k].scaling_factor),
                   fid |-> scanned.fid, patient |-> scanned.patient,
                   lb |-> order[k].lb, ub |-> order[k].ub, score |-> scanned.score,
                   scaling_factor |-> order[k].scaling_factor,
                   fid_128 |-> scanned.fid_128, attempt |-> k]
             ELSE StretchLoop(scaling, order, decoded, k + 1,
                      IF scanned.score > st.best_score
                      THEN [best_score |-> scanned.score,
                            best_barcode_data |-> found,
                            best_lb |-> order[k].lb, best_ub |-> order[k].ub,
                            best_scaling_factor |-> order[k].scaling_factor,
                            best_attempt |-> k,
                            fid |-> scanned.fid, patient |-> scanned.patient,
                            fid_128 |-> scanned.fid_128]
                      ELSE [st EXCEPT !.fid = scanned.fid,
                                      !.patient = scanned.patient,
                                      !.fid_128 = scanned.fid_128])

\* the whole call; attempt is the attempt whose barcodes are returned
LinearStretchCall(scaling, lower_bound_range, upper_bound_range, decoded) ==
    StretchLoop(scaling,
                AttemptOrder(scaling, lower_bound_range, upper_bound_range),
                decoded, 1,
                [best_score |-> -1, best_barcode_data |-> <<>>,
                 best_lb |-> 0, best_ub |-> 100, best_scaling_factor |-> UnitScale,
                 best_attempt |-> 0,
                 fid |-> "", patient |-> NoPatient, fid_128 |-> ""])

\* scaling tuples: those of run(), of extract_strip (lib/tools.py), the
\* default, a single factor, and 1.0 first
Scalings == {<<1, 2>>, <<1, 2, 4>>, <<4>>, <<2>>, <<4, 2>>}

LowerBoundRange == <<0, 5>>
UpperBoundRange == <<100>>

\* what the decoder may find in one attempt
DecodedData ==
    { <<>>,
      <<"TL", "TR", "BL">>,
      <<"F7", "C128">>,
      <<"TL", "TR", "BL", "BR", "TL_P", "FULL">>,
      <<"TL", "TL", "TR", "BL", "BR", "TL_P", "L_G">>,
      <<"TL", "TR", "BL", "BR", "TL_P", "FULL", "D5">> }

InitDecode ==
    /\ call_pc = "call"
    /\ \E scaling \in Scalings :
          call_args \in [scaling : {scaling},
                         lower_bound_range : {LowerBoundRange},
                         upper_bound_range : {UpperBoundRange},
                         decoded : [1..(Len(scaling) * Len(LowerBoundRange)
                                        * Len(UpperBoundRange)) -> DecodedData]]
    /\ call_result = <<>>
    /\ AmwIdle
    /\ IbaIdle
    /\ RunIdle
    /\ PoolIdle

TryExtracting ==
    /\ call_pc = "call"
    /\ call_result' = LinearStretchCall(call_args.scaling, call_args.lower_bound_range,
                                        call_args.upper_bound_range, call_args.decoded)
    /\ call_pc' = "return"
    /\ UNCHANGED call_args
    /\ UNCHANGED <<amw_vars, iba_vars, run_vars, pool_vars>>

NextDecode == TryExtracting

SpecDecode == InitDecode /\ [][NextDecode]_vars

-----------------------------------------------------------------------------
(* Properties of the decode, under SpecDecode *)

\* what one attempt parses and counts on its own
ScanAlone(datas) ==
    ScanBarcodes(datas, [score |-> 0, fid |-> "", patient |-> NoPatient,
                         fid_128 |-> ""])

\* the attempt the rule "first with score 6, else earliest with the highest
\* score" selects
SelectedAttempt(decoded) ==
    IF \E k \in DOMAIN decoded : ScanAlone(decoded[k]).score = 6
    THEN CHOOSE k \in DOMAIN decoded :
            /\ ScanAlone(decoded[k]).score = 6
            /\ \A j \in 1..(k - 1) : ScanAlone(decoded[j]).score # 6
    ELSE CHOOSE k \in DOMAIN decoded :
            /\ \A j \in DOMAIN decoded :
                  ScanAlone(decoded[j]).score <= ScanAlone(decoded[k]).score
            /\ \A j \in 1..(k - 1) :
                  ScanAlone(decoded[j]).score < ScanAlone(decoded[k]).score

\* C11: the score of the attempt that is returned is the number of distinct
\* labels among TL, TR, BL, BR, TL_P it decoded, plus 1 if a payload was
\* parsed, and so lies in 0..6, also when a label or a payload comes twice.
C11_ScoreCountsDistinctLabels ==
    (call_pc = "return" /\ call_result.raised = "") =>
        \A datas \in {call_args.decoded[call_result.attempt]} :
            /\ call_result.score =
                  Cardinality(Range(datas) \cap CornerLabels)
                  + (IF \E i \in DOMAIN datas : ParsePayload(datas[i])[1]
                     THEN 1 ELSE 0)
            /\ call_result.score \in 0..6

\* C11, the part that holds: when no label and no payload comes twice
C11_ScoreWithoutRepetition ==
    (call_pc = "return" /\ call_result.raised = "") =>
        \A datas \in {call_args.decoded[call_result.attempt]} :
            (\A i, j \in DOMAIN datas :
                (i # j => datas[i] # datas[j])
                /\ ((ParsePayload(datas[i])[1] /\ ParsePayload(datas[j])[1]) => i = j))
            => /\ call_result.score =
                     Cardinality(Range(datas) \cap CornerLabels)
                     + (IF \E i \in DOMAIN datas : ParsePayload(datas[i])[1]
                        THEN 1 ELSE 0)
               /\ call_result.score \in 0..6

\* C12: what is returned is of one single attempt, the first whose score is
\* 6 and otherwise the earliest with the highest score: its barcodes, its
\* percentiles, its scaling factor, its score, and the fid, manufacturer,
\* plate, well and user parsed in that attempt and in no other.
C12_ResultOfOneAttempt ==
    (call_pc = "return" /\ call_result.raised = "") =>
        \A k \in {SelectedAttempt(call_args.decoded)},
           order \in {AttemptOrder(call_args.scaling, call_args.lower_bound_range,
                                   call_args.upper_bound_range)} :
            /\ call_result.attempt = k
            /\ [i \in DOMAIN call_result.barcodes |-> call_result.barcodes[i].data]
                  = call_args.decoded[k]
            /\ call_result.lb = order[k].lb
            /\ call_result.ub = order[k].ub
            /\ call_result.scaling_factor = order[k].scaling_factor
            /\ call_result.score = ScanAlone(call_args.decoded[k]).score
            /\ call_result.fid = ScanAlone(call_args.decoded[k]).fid
            /\ call_result.patient = ScanAlone(call_args.decoded[k]).patient

\* C12, the part that holds: the barcodes, percentiles, scaling factor and
\* score are those of the selected attempt
C12_MarkersOfOneAttempt ==
    (call_pc = "return" /\ call_result.raised = "") =>
        \A k \in {SelectedAttempt(call_args.decoded)},
           order \in {AttemptOrder(call_args.scaling, call_args.lower_bound_range,
                                   call_args.upper_bound_range)} :
            /\ call_result.attempt = k
            /\ [i \in DOMAIN call_result.barcodes |-> call_result.barcodes[i].data]
                  = call_args.decoded[k]
            /\ call_result.lb = order[k].lb
            /\ call_result.ub = order[k].ub
            /\ call_result.scaling_factor = order[k].scaling_factor
            /\ call_result.score = ScanAlone(call_args.decoded[k]).score

\* C13: for every scaling tuple, 1.0 after another factor included, the call
\* returns, the attempt whose barcodes are returned decoded the image
\* resized by exactly its scaling factor, and every returned barcode is at
\* its place in the full-resolution image.
C13_FullResolutionGeometry ==
    call_pc = "return" =>
        /\ call_result.raised = ""
        /\ \A order \in {AttemptOrder(call_args.scaling, call_args.lower_bound_range,
                                     call_args.upper_bound_range)} :
              gray_resized(call_args.scaling, order[call_result.attempt].scale_index)
                 = call_result.scaling_factor
        /\ \A i \in DOMAIN call_result.barcodes :
              call_result.barcodes[i].left = LeftOf(call_result.barcodes[i].data)

\* C13, the part that holds: the scaling tuples without the factor 1.0
C13_WithoutUnitFactor ==
    (call_pc = "return" /\ UnitScale \notin Range(call_args.scaling)) =>
        /\ call_result.raised = ""
        /\ \A i \in DOMAIN call_result.barcodes :
              call_result.barcodes[i].left = LeftOf(call_result.barcodes[i].data)

\* C13, the scaling (0.25, 0.5, 1.0) alone: the call returns, but barcodes
\* decoded at 1.0 are not at their place
C13_UnitFactorLast ==
    (call_pc = "return" /\ call_args.scaling = <<1, 2, 4>>) =>
        \A i \in DOMAIN call_result.barcodes :
            call_result.barcodes[i].left = LeftOf(call_result.barcodes[i].data)

-----------------------------------------------------------------------------
(* SpecPool: run_pool of lib/pipeline.py, the images of a folder on the      *)
(* threads of a ThreadPoolExecutor                                           *)

\* What run() does with a file: "analysed", it returns the record of a full
\* analysis; "stage_failed", it returns the record with the issue of the
\* stage that failed; "unloadable", load_and_process_image returns None and
\* run() returns an empty dictionary; "raises", an exception leaves run(), as
\* when rotate_if_needed_fh raises TypeError (RotateRaises).
FileKinds == {"analysed", "stage_failed", "unloadable", "raises"}

MaxFiles == 3

WorkerCounts == {1, 2}

\* the empty dictionary
EmptyRow == [k \in {} |-> 0]

\* the lines of a log: a line is a tuple of its text and what is formatted
\* into it
BlankLine == <<" ">>

FileLine(filename) == <<"File = ", filename>>

\* "image_log.append(f"Processing {filename}")", once the image is loaded
ProcessingLine(filename) == <<"Processing ", filename>>

\* "image_log = [f" ", f"File = {filename}"]": the log run() starts with
InitialLog(filename) == <<BlankLine, FileLine(filename)>>

\* run_n(filename): what the call returns or raises; the file is named after
\* its place in the list
run_n(filename, kind) ==
    IF kind = "raises" THEN [raised |-> "TypeError"]
    ELSE IF kind = "unloadable"
    THEN [raised |-> "", row_data |-> EmptyRow, image_log |-> InitialLog(filename)]
    ELSE [raised |-> "",
          row_data |-> [basename |-> filename,
                        issue |-> IF kind = "stage_failed"
                                  THEN Issue.STRIP_BOX_EXTRACTION_FAILED
                                  ELSE Issue.NONE],
          image_log |-> Append(InitialLog(filename), ProcessingLine(filename))]

\* the truth value of a dictionary
Truthy(row) == DOMAIN row # {}

Running == {i \in DOMAIN futures : futures[i].state = "running"}

Pending == {i \in DOMAIN futures : futures[i].state = "pending"}

Finished == {i \in DOMAIN futures : futures[i].state = "finished"}

\* the loop "for result in results" over the results from the k-th on
RECURSIVE CollectResults(_, _, _)
CollectResults(results, k, acc) ==
    IF k > Len(results) THEN acc
    ELSE CollectResults(results, k + 1,
             [res |-> IF Truthy(results[k].row_data)
                      THEN Append(acc.res, results[k].row_data) ELSE acc.res,
              log_list |-> Append(acc.log_list, results[k].image_log)])

InitPool ==
    /\ files \in UNION {[1..n -> FileKinds] : n \in 0..MaxFiles}
    /\ max_workers \in WorkerCounts
    /\ futures = <<>>
    /\ res = <<>>
    /\ log_list = <<>>
    /\ pool_pc = "map"
    /\ AmwIdle
    /\ IbaIdle
    /\ RunIdle
    /\ CallIdle

\* executor.map(run_n, files): every call is submitted at once
ExecutorMap ==
    /\ pool_pc = "map"
    /\ futures' = [i \in DOMAIN files |-> [state |-> "pending"]]
    /\ pool_pc' = "results"
    /\ UNCHANGED <<files, res, log_list, max_workers>>
    /\ UNCHANGED <<amw_vars, iba_vars, run_vars, call_vars>>

\* a free thread takes the next call of the queue
WorkerTakes(i) ==
    /\ pool_pc \in {"results", "shutdown"}
    /\ i \in Pending
    /\ \A j \in Pending : i <= j
    /\ Cardinality(Running) < max_workers
    /\ futures' = [futures EXCEPT ![i].state = "running"]
    /\ UNCHANGED <<files, res, log_list, pool_pc, max_workers>>
    /\ UNCHANGED <<amw_vars, iba_vars, run_vars, call_vars>>

\* run() ends on a thread: the future holds its result or its exception
WorkerEnds(i) ==
    /\ pool_pc \in {"results", "shutdown"}
    /\ i \in Running
    /\ futures' = [futures EXCEPT ![i] =
                      [state |-> "finished", ended |-> Cardinality(Finished) + 1]
                          @@ run_n(i, files[i])]
    /\ UNCHANGED <<files, res, log_list, pool_pc, max_workers>>
    /\ UNCHANGED <<amw_vars, iba_vars, run_vars, call_vars>>

\* list(...) reaches, in the order of the files, a future that holds an
\* exception: it is raised again, the futures still pending are cancelled
ResultsRaise(k) ==
    /\ pool_pc = "results"
    /\ k \in DOMAIN futures
    /\ \A j \in 1..k : futures[j].state = "finished"
    /\ \A j \in 1..(k - 1) : futures[j].raised = ""
    /\ futures[k].raised # ""
    /\ futures' = [i \in DOMAIN futures |->
                      IF futures[i].state = "pending" THEN [state |-> "cancelled"]
                      ELSE futures[i]]
    /\ pool_pc' = "shutdown"
    /\ UNCHANGED <<files, res, log_list, max_workers>>
    /\ UNCHANGED <<amw_vars, iba_vars, run_vars, call_vars>>

\* the with block is left with the exception: the running calls are awaited,
\* then the exception leaves run_pool
RunPoolRaises ==
    /\ pool_pc = "shutdown"
    /\ Running = {}
    /\ pool_pc' = "raised"
    /\ UNCHANGED <<files, futures, res, log_list, max_workers>>
    /\ UNCHANGED <<amw_vars, iba_vars, run_vars, call_vars>>

\* the futures in the order in which their calls ended
AsCompleted(done) ==
    [n \in DOMAIN done |-> done[CHOOSE i \in DOMAIN done : done[i].ended = n]]

\* variant: the results are taken as the calls complete
RunPoolReturnsAsCompleted ==
    /\ pool_pc = "results"
    /\ \A i \in DOMAIN futures :
          futures[i].state = "finished" /\ futures[i].raised = ""
    /\ \E collected \in {CollectResults(AsCompleted(futures), 1,
                                        [res |-> <<>>, log_list |-> <<>>])} :
          /\ res' = collected.res
          /\ log_list' = collected.log_list
    /\ pool_pc' = "returned"
    /\ UNCHANGED <<files, futures, max_workers>>
    /\ UNCHANGED <<amw_vars, iba_vars, run_vars, call_vars>>

\* every future gave a result: the loop over the results, and the return
RunPoolReturns ==
    /\ pool_pc = "results"
    /\ \A i \in DOMAIN futures :
          futures[i].state = "finished" /\ futures[i].raised = ""
    /\ \E collected \in {CollectResults(futures, 1, [res |-> <<>>, log_list |-> <<>>])} :
          /\ res' = collected.res
          /\ log_list' = collected.log_list
    /\ pool_pc' = "returned"
    /\ UNCHANGED <<files, futures, max_workers>>
    /\ UNCHANGED <<amw_vars, iba_vars, run_vars, call_vars>>

NextPool ==
    \/ ExecutorMap
    \/ \E i \in DOMAIN futures : WorkerTakes(i)
    \/ \E i \in DOMAIN futures : WorkerEnds(i)
    \/ \E k \in DOMAIN futures : ResultsRaise(k)
    \/ RunPoolRaises
    \/ RunPoolReturns

SpecPool == InitPool /\ [][NextPool]_vars

-----------------------------------------------------------------------------
(* Properties of run_pool, under SpecPool *)

\* C15: when run_pool returns, one record and one log were appended for
\* every file handed in, the files whose image could not be loaded
\* included: as many rows as files, as many logs as files.
C15_OneRecordPerFile ==
    pool_pc = "returned" =>
        /\ Len(res) = Len(files)
        /\ Len(log_list) = Len(files)

\* C15, the part that holds: one log per file, and one record, in the order
\* of the files, for every file whose image was loaded
C15_OneRecordPerLoadedFile ==
    pool_pc = "returned" =>
        /\ Len(log_list) = Len(files)
        /\ \A i \in DOMAIN files : log_list[i] = run_n(i, files[i]).image_log
        /\ Len(res) = Cardinality({i \in DOMAIN files : files[i] # "unloadable"})
        /\ \A i \in DOMAIN files :
              files[i] # "unloadable" =>
                  \E k \in DOMAIN res : res[k].basename = i

\* C16: no failure of one image, a failed stage or an exception inside
\* run() on a thread, aborts the batch: run_pool never ends with an
\* exception, and when it ended the records and the logs of all the other
\* images were returned.
C16_BatchNeverAborted ==
    /\ pool_pc # "raised"
    /\ pool_pc = "returned" =>
          \A i \in DOMAIN files :
              files[i] \in {"analysed", "stage_failed"} =>
                  /\ \E k \in DOMAIN res : res[k].basename = i
                  /\ \E k \in DOMAIN log_list : log_list[k] = run_n(i, files[i]).image_log

\* C16, the part that holds: a failed stage never aborts the batch; only an
\* exception inside run() does
C16_StageFailureNeverAborts ==
    /\ pool_pc \in {"shutdown", "raised"} =>
          \E i \in DOMAIN files : files[i] = "raises"
    /\ pool_pc = "returned" =>
          \A i \in DOMAIN files :
              files[i] = "stage_failed" =>
                  \E k \in DOMAIN res :
                      /\ res[k].basename = i
                      /\ res[k].issue = Issue.STRIP_BOX_EXTRACTION_FAILED

\* an exception inside run() always aborts the batch: run_pool never
\* returns when run() raised for one of the files
RunPoolNeverReturnsAfterException ==
    pool_pc = "returned" => \A i \in DOMAIN files : files[i] # "raises"

-----------------------------------------------------------------------------
(* SpecRotate: one call of rotate_if_needed_fh (lib/barcode.py) on the       *)
(* positions of the QR codes of a decode. None is the empty tuple.           *)

None == <<>>

PositionKeys == {"TL_P", "TL", "TR", "BL", "BR", "L_G", "R_G"}

\* a if it is not None, else b
OrElse(a, b) == IF a # None THEN a ELSE b

\* "a[c] < b[c]": "T", "F", or "E" when a or b is None, which raises
\* TypeError: 'NoneType' object is not subscriptable
Less(a, b, c) ==
    IF a = None \/ b = None THEN "E"
    ELSE IF a[c] < b[c] THEN "T" ELSE "F"

\* "c1 and c2 and ...", evaluated from the left: the first operand that is
\* not true decides
RECURSIVE AndChain(_)
AndChain(operands) ==
    IF operands = <<>> THEN "T"
    ELSE IF Head(operands) = "T" THEN AndChain(Tail(operands))
    ELSE Head(operands)

\* lines 1422-1428: TR, or the assignment to the items of G_TR, which is
\* None there and raises TypeError
SynthesizeTR(positions, G_TL, G_BL, G_BR) ==
    IF positions["TR"] # None THEN [raised |-> "", G_TR |-> positions["TR"]]
    ELSE IF G_TL # None /\ G_BL # None /\ G_BR # None
         THEN [raised |-> "TypeError", G_TR |-> None]
         ELSE [raised |-> "", G_TR |-> None]

\* lines 1433-1464: the four cases on the corners, each <<condition, angle>>
CornerCases(G_TL, G_TR, G_BL, G_BR) ==
    << <<AndChain(<<Less(G_TL, G_TR, "x"), Less(G_TL, G_BL, "y"),
                    Less(G_TL, G_BR, "x"), Less(G_TL, G_BR, "y")>>), 0>>,
       <<AndChain(<<Less(G_TR, G_BR, "x"), Less(G_TR, G_TL, "y"),
                    Less(G_TR, G_BL, "x"), Less(G_TR, G_BL, "y")>>), -90>>,
       <<AndChain(<<Less(G_BR, G_BL, "x"), Less(G_BR, G_TR, "y"),
                    Less(G_BR, G_TL, "x"), Less(G_BR, G_TL, "y")>>), 180>>,
       <<AndChain(<<Less(G_BL, G_TL, "x"), Less(G_BL, G_BR, "y"),
                    Less(G_BL, G_TR, "x"), Less(G_BL, G_TR, "y")>>), 90>> >>

\* the sum and the number of the coordinates c of the keys that are present
RECURSIVE AxisSum(_, _, _)
AxisSum(positions, keys, c) ==
    IF keys = <<>> THEN <<0, 0>>
    ELSE LET rest == AxisSum(positions, Tail(keys), c)
         IN  IF positions[Head(keys)] # None
             THEN <<rest[1] + positions[Head(keys)][c], rest[2] + 1>>
             ELSE rest

\* the axis: the mean sum / n if n > 0, else 0, as a fraction
Axis(positions, keys, c) ==
    IF AxisSum(positions, keys, c)[2] > 0
    THEN AxisSum(positions, keys, c) ELSE <<0, 1>>

FracLess(a, b) == a[1] * b[2] < b[1] * a[2]

\* lines 1472-1577: the original implementation, on the four axes
AxisVote(left_x_axis, right_x_axis, top_y_axis, bottom_y_axis, log) ==
    IF FracLess(left_x_axis, right_x_axis) /\ FracLess(top_y_axis, bottom_y_axis)
    THEN [raised |-> "", image_was_rotated |-> FALSE, angle |-> 0, image_log |-> log]
    ELSE IF FracLess(right_x_axis, left_x_axis) /\ FracLess(bottom_y_axis, top_y_axis)
    THEN [raised |-> "", image_was_rotated |-> TRUE, angle |-> 180, image_log |-> log]
    ELSE IF FracLess(right_x_axis, left_x_axis) /\ FracLess(top_y_axis, bottom_y_axis)
    THEN [raised |-> "", image_was_rotated |-> TRUE, angle |-> 90, image_log |-> log]
    ELSE IF FracLess(left_x_axis, right_x_axis) /\ FracLess(bottom_y_axis, top_y_axis)
    THEN [raised |-> "", image_was_rotated |-> TRUE, angle |-> -90, image_log |-> log]
    ELSE [raised |-> "", image_was_rotated |-> FALSE, angle |-> 0,
          image_log |-> Append(log, "Unhandled rotation case")]

\* the cases from the i-th on, then the original implementation
RECURSIVE DecideRotation(_, _, _)
DecideRotation(positions, cases, i) ==
    IF i > Len(cases)
    THEN AxisVote(Axis(positions, <<"TL_P", "TL", "BL", "L_G">>, "x"),
                  Axis(positions, <<"TR", "BR", "R_G">>, "x"),
                  Axis(positions, <<"TL_P", "TL", "TR">>, "y"),
                  Axis(positions, <<"BL", "BR", "L_G", "R_G">>, "y"),
                  <<"Fell back to old algorithm">>)
    ELSE IF cases[i][1] = "E" THEN [raised |-> "TypeError"]
    ELSE IF cases[i][1] = "T"
         THEN [raised |-> "", image_was_rotated |-> cases[i][2] # 0,
               angle |-> cases[i][2], image_log |-> <<>>]
         ELSE DecideRotation(positions, cases, i + 1)

RotateWithCorners(positions, G_TL, G_BL, G_BR, tr) ==
    IF tr.raised # "" THEN [raised |-> tr.raised]
    ELSE DecideRotation(positions, CornerCases(G_TL, tr.G_TR, G_BL, G_BR), 1)

RotateWith(positions, G_TL, G_BL, G_BR) ==
    RotateWithCorners(positions, G_TL, G_BL, G_BR,
                      SynthesizeTR(positions, G_TL, G_BL, G_BR))

rotate_if_needed_fh(positions) ==
    RotateWith(positions,
               OrElse(positions["TL"], positions["TL_P"]),
               OrElse(positions["BL"], positions["L_G"]),
               OrElse(positions["BR"], positions["R_G"]))

\* where a QR code may be: the corners of a square, x to the right, y down
Points == [x : {0, 1}, y : {0, 1}]

\* decodes that pass "best_score < 3": at least three of the labels that
\* count are there
PositionSets ==
    {q \in [PositionKeys -> Points \cup {None}] :
        Cardinality({k \in CornerLabels : q[k] # None}) >= 3}

InitRotate ==
    /\ call_pc = "call"
    /\ call_args \in [positions : PositionSets]
    /\ call_result = <<>>
    /\ AmwIdle
    /\ IbaIdle
    /\ RunIdle
    /\ PoolIdle

RotateIfNeededCall ==
    /\ call_pc = "call"
    /\ call_result' = rotate_if_needed_fh(call_args.positions)
    /\ call_pc' = "return"
    /\ UNCHANGED call_args
    /\ UNCHANGED <<amw_vars, iba_vars, run_vars, pool_vars>>

NextRotate == RotateIfNeededCall

SpecRotate == InitRotate /\ [][NextRotate]_vars

-----------------------------------------------------------------------------
(* Properties of rotate_if_needed_fh, under SpecRotate *)

\* C14: for every set of positions that passes the gate, TR missing or a
\* whole corner missing included, the call raises nothing and returns one of
\* no rotation, -90, 180, 90 degrees; when nothing decides, the image is not
\* rotated and the note of the unhandled case is in the log.
C14_NeverRaises ==
    call_pc = "return" =>
        /\ call_result.raised = ""
        /\ call_result.angle \in {0, -90, 180, 90}
        /\ call_result.image_was_rotated <=> call_result.angle # 0

\* C14, the part that holds: when TR and a code of each other corner were
\* decoded
C14_AllCornersDecoded ==
    (/\ call_pc = "return"
     /\ call_args.positions["TR"] # None
     /\ OrElse(call_args.positions["TL"], call_args.positions["TL_P"]) # None
     /\ OrElse(call_args.positions["BL"], call_args.positions["L_G"]) # None
     /\ OrElse(call_args.positions["BR"], call_args.positions["R_G"]) # None) =>
        /\ call_result.raised = ""
        /\ call_result.angle \in {0, -90, 180, 90}
        /\ call_result.image_was_rotated <=> call_result.angle # 0

\* the call returns exactly when TR and a code of each of the other corners
\* were decoded, wherever the codes are
RotateReturnsIffCornersDecoded ==
    call_pc = "return" =>
        (call_result.raised = "" <=>
            /\ call_args.positions["TR"] # None
            /\ OrElse(call_args.positions["TL"], call_args.positions["TL_P"]) # None
            /\ OrElse(call_args.positions["BL"], call_args.positions["L_G"]) # None
            /\ OrElse(call_args.positions["BR"], call_args.positions["R_G"]) # None)

\* C14, TR synthesized: whenever TR is missing and the other three corners
\* are there, the call returns (this is violated)
C14_SynthesizedTR ==
    (/\ call_pc = "return"
     /\ call_args.positions["TR"] = None
     /\ OrElse(call_args.positions["TL"], call_args.positions["TL_P"]) # None
     /\ OrElse(call_args.positions["BL"], call_args.positions["L_G"]) # None
     /\ OrElse(call_args.positions["BR"], call_args.positions["R_G"]) # None) =>
        call_result.raised = ""

-----------------------------------------------------------------------------
(* SpecBox: one call of find_strip_box_from_barcode_data_fh (lib/barcode.py) *)
(* on the barcodes of a decode, with their places in the image               *)

RECURSIVE InsertSorted(_, _)
InsertSorted(sorted, v) ==
    IF sorted = <<>> THEN <<v>>
    ELSE IF v <= Head(sorted) THEN <<v>> \o sorted
    ELSE <<Head(sorted)>> \o InsertSorted(Tail(sorted), v)

RECURSIVE Sorted(_)
Sorted(list) ==
    IF list = <<>> THEN <<>> ELSE InsertSorted(Sorted(Tail(list)), Head(list))

\* int(a / 2): towards zero
HalfTowardsZero(a) == IF a >= 0 THEN a \div 2 ELSE -((-a) \div 2)

\* int(np.median(list)) of a sorted, non-empty list
MedianOfSorted(sorted) ==
    IF Len(sorted) % 2 = 1 THEN sorted[(Len(sorted) + 1) \div 2]
    ELSE HalfTowardsZero(sorted[Len(sorted) \div 2] + sorted[Len(sorted) \div 2 + 1])

\* "-1, or the integer median if there is a candidate"
IntMedian(candidates) ==
    IF Len(candidates) > 0 THEN MedianOfSorted(Sorted(candidates)) ELSE -1

\* the loop over the barcodes: the candidates of the four sides
RECURSIVE BoxCandidates(_, _, _)
BoxCandidates(the_barcodes, qr_code_border, acc) ==
    IF the_barcodes = <<>> THEN acc
    ELSE LET barcode == Head(the_barcodes)
             left == barcode.left - qr_code_border
             right == barcode.left + barcode.width + qr_code_border
             top == barcode.top - qr_code_border
             bottom == barcode.top + barcode.height + qr_code_border
         IN  BoxCandidates(Tail(the_barcodes), qr_code_border,
                 IF barcode.data = "BR"
                 THEN [acc EXCEPT !.all_x = Append(@, right), !.all_y = Append(@, bottom)]
                 ELSE IF barcode.data = "BL"
                 THEN [acc EXCEPT !.all_x0 = Append(@, left), !.all_y = Append(@, bottom)]
                 ELSE IF barcode.data = "TR"
                 THEN [acc EXCEPT !.all_x = Append(@, right), !.all_y0 = Append(@, top)]
                 ELSE IF barcode.data = "TL"
                 THEN [acc EXCEPT !.all_x0 = Append(@, left), !.all_y0 = Append(@, top)]
                 ELSE acc)

NoCandidates == [all_y0 |-> <<>>, all_y |-> <<>>, all_x0 |-> <<>>, all_x |-> <<>>]

\* the length of array[a:b] along an axis of length n
SliceLen(n, a, b) ==
    LET from == IF a < 0 THEN Max(a + n, 0) ELSE Min(a, n)
        to == IF b < 0 THEN Max(b + n, 0) ELSE Min(b, n)
    IN  Max(to - from, 0)

\* lines 813-843: the box, its shape as numpy cuts it, and box_rect
BoxOf(shape, x0, x, y0, y) ==
    IF x0 # -1 /\ x # -1 /\ x > x0 /\ y0 # -1 /\ y # -1 /\ y > y0
    THEN [box |-> [shape |-> <<SliceLen(shape[1], y0, y), SliceLen(shape[2], x0, x)>>],
          box_rect |-> <<y0, y, x0, x>>]
    ELSE [box |-> None, box_rect |-> None]

BoxFromCandidates(shape, all) ==
    BoxOf(shape, IntMedian(all.all_x0), IntMedian(all.all_x),
          IntMedian(all.all_y0), IntMedian(all.all_y))

StripBoxFromBarcodes(shape, the_barcodes, qr_code_border) ==
    BoxFromCandidates(shape, BoxCandidates(the_barcodes, qr_code_border, NoCandidates))

\* the image: rows, columns
ImageShape == <<6, 8>>

\* where the top left corner of a QR code may be; a code is two wide and high
Spots == [left : {0, 1, 6}, top : {0, 1, 4}]

QrLabels == <<"TL", "TR", "BL", "BR", "TL">>

\* the barcodes of a choice: the k-th label of QrLabels at choice[k], if any
RECURSIVE BarcodesOf(_, _)
BarcodesOf(choice, k) ==
    IF k > Len(QrLabels) THEN <<>>
    ELSE (IF choice[k] = None THEN <<>>
          ELSE <<[data |-> QrLabels[k], left |-> choice[k].left, top |-> choice[k].top,
                  width |-> 2, height |-> 2]>>)
         \o BarcodesOf(choice, k + 1)

\* a second TL only next to a first one, above it or level with it
BarcodeChoices ==
    {c \in [DOMAIN QrLabels -> Spots \cup {None}] :
        c[5] # None => (c[1] # None /\ c[5].left = 1 /\ c[5].top <= 1)}

Borders == {0, 2}

InitBox ==
    /\ call_pc = "call"
    /\ call_args \in {[image_shape |-> ImageShape, barcode_data |-> BarcodesOf(c, 1),
                       qr_code_border |-> b] : c \in BarcodeChoices, b \in Borders}
    /\ call_result = <<>>
    /\ AmwIdle
    /\ IbaIdle
    /\ RunIdle
    /\ PoolIdle

FindStripBoxCall ==
    /\ call_pc = "call"
    /\ call_result' = StripBoxFromBarcodes(call_args.image_shape, call_args.barcode_data,
                                           call_args.qr_code_border)
    /\ call_pc' = "return"
    /\ UNCHANGED call_args
    /\ UNCHANGED <<amw_vars, iba_vars, run_vars, pool_vars>>

NextBox == FindStripBoxCall

SpecBox == InitBox /\ [][NextBox]_vars

-----------------------------------------------------------------------------
(* Properties of find_strip_box_from_barcode_data_fh, under SpecBox *)

HasCode(the_barcodes, labels) ==
    \E i \in DOMAIN the_barcodes : the_barcodes[i].data \in labels

EverySideHasCandidate(the_barcodes) ==
    /\ HasCode(the_barcodes, {"TL", "BL"})
    /\ HasCode(the_barcodes, {"TR", "BR"})
    /\ HasCode(the_barcodes, {"TL", "TR"})
    /\ HasCode(the_barcodes, {"BL", "BR"})

\* C19: a box is returned only when the TL, TR, BL, BR codes found give a
\* candidate for each of x0, x, y0 and y, and the rectangle [y0, y, x0, x]
\* returned with it has no negative coordinate, x > x0 and y > y0.
C19_BoxWithinImage ==
    (call_pc = "return" /\ call_result.box # None) =>
        /\ EverySideHasCandidate(call_args.barcode_data)
        /\ \A k \in 1..4 : call_result.box_rect[k] >= 0
        /\ call_result.box_rect[4] > call_result.box_rect[3]
        /\ call_result.box_rect[2] > call_result.box_rect[1]

\* C19, the part that holds: a box only with a candidate for every side,
\* with x > x0 and y > y0 and no coordinate equal to -1; a coordinate below
\* -1 is let through
C19_BoxOnlyWithCandidates ==
    (call_pc = "return" /\ call_result.box # None) =>
        /\ EverySideHasCandidate(call_args.barcode_data)
        /\ \A k \in 1..4 : call_result.box_rect[k] # -1
        /\ call_result.box_rect[4] > call_result.box_rect[3]
        /\ call_result.box_rect[2] > call_result.box_rect[1]

\* C19, the part that holds without a border: the codes are inside the
\* image, so are the sides of the box
C19_BoxWithinImageWithoutBorder ==
    (call_pc = "return" /\ call_result.box # None /\ call_args.qr_code_border = 0) =>
        \A k \in 1..4 : call_result.box_rect[k] >= 0

-----------------------------------------------------------------------------
(* SpecTurn: rotate (lib/barcode.py) by an angle and back by its opposite    *)

\* |cos| and |sin| of the angles, in millionths, as abs(M[0, 0]) and
\* abs(M[0, 1]) of cv2.getRotationMatrix2D. At the multiples of 90 degrees
\* the floating point values are 1.0 and a residue of about 1e-16, which
\* int() cuts off again: the residue is left out.
Million == 1000000

AbsCosSin(angle) ==
    CASE Abs(angle) \in {0, 180} -> <<Million, 0>>
      [] Abs(angle) \in {90, 270} -> <<0, Million>>
      [] Abs(angle) = 45 -> <<707106, 707106>>
      [] Abs(angle) = 10 -> <<984807, 173648>>

\* variant: rounded up
IntAbove(v) == v \div Million + 1

\* int(v) of a value in millionths that is not negative
IntOf(v) == v \div Million

\* (bound_h, bound_w): the size of the rotated bounding box
BoundSize(height, width, abs_cos, abs_sin) ==
    <<IntOf(height * abs_cos + width * abs_sin),
      IntOf(height * abs_sin + width * abs_cos)>>

RotatedBy(image, bound) ==
    [height |-> bound[1], width |-> bound[2], pixels |-> "warpAffine"]

\* an image is its shape and where its pixels are from: "input", the array
\* passed in, or "warpAffine", a new array interpolated from it
rotate(image, angle) ==
    IF angle = 0 THEN image
    ELSE RotatedBy(image, BoundSize(image.height, image.width,
                                    AbsCosSin(angle)[1], AbsCosSin(angle)[2]))

MaxSide == 6

Angles == {0, 90, -90, 180, -180, 270, 45, -45, 10, -10}

RightAngles == {0, 90, -90, 180, -180, 270}

InitTurn ==
    /\ call_pc = "call"
    /\ call_args \in [image : [height : 1..MaxSide, width : 1..MaxSide, pixels : {"input"}],
                      angle : Angles]
    /\ call_result = <<>>
    /\ AmwIdle
    /\ IbaIdle
    /\ RunIdle
    /\ PoolIdle

\* rotate(image, angle)
Turn ==
    /\ call_pc = "call"
    /\ call_result' = <<rotate(call_args.image, call_args.angle)>>
    /\ call_pc' = "turned"
    /\ UNCHANGED call_args
    /\ UNCHANGED <<amw_vars, iba_vars, run_vars, pool_vars>>

\* rotate(rotate(image, angle), -angle)
TurnBack ==
    /\ call_pc = "turned"
    /\ call_result' = Append(call_result, rotate(call_result[1], -call_args.angle))
    /\ call_pc' = "return"
    /\ UNCHANGED call_args
    /\ UNCHANGED <<amw_vars, iba_vars, run_vars, pool_vars>>

NextTurn ==
    \/ Turn
    \/ TurnBack

SpecTurn == InitTurn /\ [][NextTurn]_vars

-----------------------------------------------------------------------------
(* Properties of rotate, under SpecTurn *)

\* C20, as stated: rotate(image, 0) returns the input unchanged, and for
\* every angle rotate(rotate(image, angle), -angle) has the height and the
\* width of the image.
C20_RoundTripKeepsExtents ==
    /\ (call_pc = "turned" /\ call_args.angle = 0) =>
          call_result[1] = call_args.image
    /\ call_pc = "return" =>
          /\ call_result[2].height = call_args.image.height
          /\ call_result[2].width = call_args.image.width

\* C20, amended: rotate(image, 0) returns the input unchanged; by a multiple
\* of 90 degrees the height and the width are kept (180) or exchanged (90,
\* 270), and rotate(rotate(image, angle), -angle) has the height and the
\* width of the image.
C20_RoundTripAtRightAngles ==
    /\ (call_pc # "call" /\ call_args.angle = 0) =>
          call_result[1] = call_args.image
    /\ (call_pc # "call" /\ Abs(call_args.angle) \in {90, 270}) =>
          /\ call_result[1].height = call_args.image.width
          /\ call_result[1].width = call_args.image.height
    /\ (call_pc = "return" /\ call_args.angle \in RightAngles) =>
          /\ call_result[2].height = call_args.image.height
          /\ call_result[2].width = call_args.image.width

C20_Witness ==
    /\ call_pc = "return"
    /\ call_args.angle = 90
    /\ call_args.image.height # call_args.image.width
    /\ call_result[1].pixels = "warpAffine"
    /\ call_result[2].height = call_args.image.height

-----------------------------------------------------------------------------
(* SpecMinima: one call of local_minima (lib/analysis.py) on the profile     *)
(* between the borders, as estimate_threshold_for_significant_peaks calls it *)

\* the greatest of the values of a 0-based array
RECURSIVE ArrayMax(_, _)
ArrayMax(array, n) ==
    IF n = 0 THEN array[0] ELSE Max(array[n], ArrayMax(array, n - 1))

\* the array at i, or cval outside of it (mode='constant')
Padded(array, i, cval) == IF i \in DOMAIN array THEN array[i] ELSE cval

\* ndimage.maximum_filter(array, 1 + 2 * min_distance, mode='constant', cval)
\* at i, for min_distance = 1
maximum_filter(array, i, cval) ==
    Max(Padded(array, i - 1, cval), Max(array[i], Padded(array, i + 1, cval)))

\* the indices where the array equals its filter, cval = array.max() + 1
PointsOfFilter(array, cval) ==
    {i \in DOMAIN array : array[i] = maximum_filter(array, i, cval)}

local_minima(array) ==
    PointsOfFilter(array, ArrayMax(array, Cardinality(DOMAIN array) - 1) + 1)

MaxInterior == 5

MaxLevel == 2

InteriorProfiles ==
    UNION {[0..(n - 1) -> 0..MaxLevel] : n \in 1..MaxInterior}

InitMinima ==
    /\ call_pc = "call"
    /\ call_args \in [array : InteriorProfiles]
    /\ call_result = <<>>
    /\ AmwIdle
    /\ IbaIdle
    /\ RunIdle
    /\ PoolIdle

LocalMinimaCall ==
    /\ call_pc = "call"
    /\ call_result' = local_minima(call_args.array)
    /\ call_pc' = "return"
    /\ UNCHANGED call_args
    /\ UNCHANGED <<amw_vars, iba_vars, run_vars, pool_vars>>

NextMinima == LocalMinimaCall

SpecMinima == InitMinima /\ [][NextMinima]_vars

-----------------------------------------------------------------------------
(* Properties of local_minima, under SpecMinima *)

InteriorOf(array) == {i \in DOMAIN array : i - 1 \in DOMAIN array /\ i + 1 \in DOMAIN array}

\* C21: the indices returned by local_minima are exactly the local minima of
\* the profile: every returned index i has profile[i] <= profile[i-1] and
\* profile[i] <= profile[i+1], and every interior index with that property
\* is returned.
C21_ExactlyTheLocalMinima ==
    call_pc = "return" =>
        call_result = {i \in InteriorOf(call_args.array) :
                          /\ call_args.array[i] <= call_args.array[i - 1]
                          /\ call_args.array[i] <= call_args.array[i + 1]}

\* C21, what holds instead: the indices returned are exactly the interior
\* local maxima, the indices i with profile[i] >= profile[i-1] and
\* profile[i] >= profile[i+1]
C21_ExactlyTheLocalMaxima ==
    call_pc = "return" =>
        call_result = {i \in InteriorOf(call_args.array) :
                          /\ call_args.array[i] >= call_args.array[i - 1]
                          /\ call_args.array[i] >= call_args.array[i + 1]}

-----------------------------------------------------------------------------
(* SpecWalk: _find_lower_background and _find_upper_background               *)
(* (lib/analysis.py) from a peak, over the whole profile                     *)

WalkLen == 8

WalkLevels == {0, 1, 2}

SkipsAllowed == {1, 2}

InitWalk ==
    /\ call_pc = "call"
    /\ call_args \in [profile : [0..(WalkLen - 1) -> WalkLevels],
                      peak_index : 0..(WalkLen - 1),
                      max_skip : SkipsAllowed]
    /\ call_result = <<>>
    /\ AmwIdle
    /\ IbaIdle
    /\ RunIdle
    /\ PoolIdle

\* both searches, with lowest_bound = 0 and highest_bound = len(profile)
FindBackgrounds ==
    /\ call_pc = "call"
    /\ call_result' =
          [lower |-> find_lower_background(call_args.profile, call_args.peak_index,
                                           0, call_args.max_skip),
           upper |-> find_upper_background(call_args.profile, call_args.peak_index,
                                           PLen(call_args.profile), call_args.max_skip)]
    /\ call_pc' = "return"
    /\ UNCHANGED call_args
    /\ UNCHANGED <<amw_vars, iba_vars, run_vars, pool_vars>>

NextWalk == FindBackgrounds

SpecWalk == InitWalk /\ [][NextWalk]_vars

-----------------------------------------------------------------------------
(* Properties of the two searches, under SpecWalk *)

\* The walk that the claim describes, from index on in direction step (-1 or
\* 1) up to but not including limit: run counts the consecutive samples
\* above the background and starts again at every sample taken; the walk
\* ends at the sample that makes the run longer than max_skip.
RECURSIVE ConsecutiveWalk(_, _, _, _, _, _, _, _)
ConsecutiveWalk(p, index, step, limit, max_skip, bound, background, run) ==
    IF index = limit THEN <<bound, background>>
    ELSE IF p[index] <= background
         THEN ConsecutiveWalk(p, index + step, step, limit, max_skip, index, p[index], 0)
         ELSE IF run + 1 > max_skip THEN <<bound, background>>
              ELSE ConsecutiveWalk(p, index + step, step, limit, max_skip,
                                   bound, background, run + 1)

\* the walk that no sample ends, and the samples above the background that
\* it meets
RECURSIVE SamplesAbove(_, _, _, _, _)
SamplesAbove(p, index, step, limit, background) ==
    IF index = limit THEN 0
    ELSE IF p[index] <= background
         THEN SamplesAbove(p, index + step, step, limit, p[index])
         ELSE 1 + SamplesAbove(p, index + step, step, limit, background)

\* C22: the searches stop only after more than max_skip consecutive samples
\* that are not below the current background: a run of at most max_skip
\* such samples followed by a sample at or below the background never ends
\* the search, however many runs were crossed before. So each search gets at
\* least as far from the peak as the walk that counts consecutive samples.
C22_OnlyConsecutiveSamplesStop ==
    call_pc = "return" =>
        /\ (call_args.peak_index > 0 =>
              call_result.lower[1] <=
                 ConsecutiveWalk(call_args.profile, call_args.peak_index - 1, -1, 0,
                                 call_args.max_skip, call_args.peak_index - 1,
                                 call_args.profile[call_args.peak_index], 0)[1])
        /\ call_result.upper[1] >=
              ConsecutiveWalk(call_args.profile, call_args.peak_index + 1, 1,
                              PLen(call_args.profile), call_args.max_skip,
                              call_args.peak_index + 1,
                              call_args.profile[call_args.peak_index], 0)[1]

\* C22, the part that holds: the samples above the background are counted
\* in total, not per run; a side that has at most max_skip + 1 of them in
\* total is walked to its end, the bound is at its lowest, farthest sample
C22_SkipsCountedInTotal ==
    call_pc = "return" =>
        /\ (/\ call_args.peak_index > 0
            /\ SamplesAbove(call_args.profile, call_args.peak_index - 1, -1, 0,
                            call_args.profile[call_args.peak_index])
                  <= call_args.max_skip + 1) =>
              call_result.lower =
                 ConsecutiveWalk(call_args.profile, call_args.peak_index - 1, -1, 0,
                                 WalkLen, call_args.peak_index - 1,
                                 call_args.profile[call_args.peak_index], 0)
        /\ (SamplesAbove(call_args.profile, call_args.peak_index + 1, 1,
                         PLen(call_args.profile),
                         call_args.profile[call_args.peak_index])
               <= call_args.max_skip + 1) =>
              call_result.upper =
                 ConsecutiveWalk(call_args.profile, call_args.peak_index + 1, 1,
                                 PLen(call_args.profile), WalkLen,
                                 call_args.peak_index + 1,
                                 call_args.profile[call_args.peak_index], 0)

-----------------------------------------------------------------------------
(* SpecBounds: find_peak_bounds (lib/analysis.py) search by search; the      *)
(* locals of the call are the fields of call_result                          *)

\* "max_skip_lower <= 5", "max_skip_upper <= 5": variant with one more
SkipCapRaised == 5 + 1

SkipCap == 5

BoundsProfileLen == 5

BoundsLevels == 0..3

InitBounds ==
    /\ call_pc = "call"
    /\ call_args \in [profile : [0..(BoundsProfileLen - 1) -> BoundsLevels],
                      border : {0, 1},
                      peak_index : 0..(BoundsProfileLen - 1)]
    /\ call_result = <<>>
    /\ AmwIdle
    /\ IbaIdle
    /\ RunIdle
    /\ PoolIdle

\* lines 179-203: the two searches with max_skip = 1 and the check of both
\* relative residuals against the lower of the two backgrounds
FirstSearches ==
    /\ call_pc = "call"
    /\ \E lower0 \in {find_lower_background(call_args.profile, call_args.peak_index,
                                            call_args.border, 1)},
          upper0 \in {find_upper_background(call_args.profile, call_args.peak_index,
                                            PLen(call_args.profile) - call_args.border, 1)} :
          call_result' =
             [lower |-> lower0, upper |-> upper0,
              i_lower |-> ResidualTooLarge(lower0[2], Min(lower0[2], upper0[2]),
                                           call_args.profile[call_args.peak_index]),
              i_upper |-> ResidualTooLarge(upper0[2], Min(lower0[2], upper0[2]),
                                           call_args.profile[call_args.peak_index]),
              max_skip_lower |-> 2, max_skip_upper |-> 2,
              searches |-> << <<"lower", 1>>, <<"upper", 1>> >>]
    /\ call_pc' = "lower_loop"
    /\ UNCHANGED call_args
    /\ UNCHANGED <<amw_vars, iba_vars, run_vars, pool_vars>>

\* lines 209-223: one pass of "while i_lower > 0.25 and max_skip_lower <= 5"
RerunLower ==
    /\ call_pc = "lower_loop"
    /\ call_result.i_lower /\ call_result.max_skip_lower <= SkipCap
    /\ \E again \in {find_lower_background(call_args.profile, call_args.peak_index,
                                           call_args.border, call_result.max_skip_lower)} :
          call_result' =
             [call_result EXCEPT
                 !.lower = again,
                 !.i_lower = ResidualTooLarge(again[2], Min(again[2], call_result.upper[2]),
                                              call_args.profile[call_args.peak_index]),
                 !.max_skip_lower = @ + 1,
                 !.searches = Append(@, <<"lower", call_result.max_skip_lower>>)]
    /\ UNCHANGED <<call_pc, call_args>>
    /\ UNCHANGED <<amw_vars, iba_vars, run_vars, pool_vars>>

\* the first loop is left
LeaveLowerLoop ==
    /\ call_pc = "lower_loop"
    /\ ~(call_result.i_lower /\ call_result.max_skip_lower <= SkipCap)
    /\ call_pc' = "upper_loop"
    /\ UNCHANGED <<call_args, call_result>>
    /\ UNCHANGED <<amw_vars, iba_vars, run_vars, pool_vars>>

\* lines 228-242: one pass of "while i_upper > 0.25 and max_skip_upper <= 5"
RerunUpper ==
    /\ call_pc = "upper_loop"
    /\ call_result.i_upper /\ call_result.max_skip_upper <= SkipCap
    /\ \E again \in {find_upper_background(call_args.profile, call_args.peak_index,
                                           PLen(call_args.profile) - call_args.border,
                                           call_result.max_skip_upper)} :
          call_result' =
             [call_result EXCEPT
                 !.upper = again,
                 !.i_upper = ResidualTooLarge(again[2], Min(call_result.lower[2], again[2]),
                                              call_args.profile[call_args.peak_index]),
                 !.max_skip_upper = @ + 1,
                 !.searches = Append(@, <<"upper", call_result.max_skip_upper>>)]
    /\ UNCHANGED <<call_pc, call_args>>
    /\ UNCHANGED <<amw_vars, iba_vars, run_vars, pool_vars>>

\* the second loop is left, the bounds are returned
ReturnBounds ==
    /\ call_pc = "upper_loop"
    /\ ~(call_result.i_upper /\ call_result.max_skip_upper <= SkipCap)
    /\ call_pc' = "return"
    /\ UNCHANGED <<call_args, call_result>>
    /\ UNCHANGED <<amw_vars, iba_vars, run_vars, pool_vars>>

NextBounds ==
    \/ FirstSearches
    \/ RerunLower
    \/ LeaveLowerLoop
    \/ RerunUpper
    \/ ReturnBounds

SpecBounds == InitBounds /\ [][NextBounds]_vars

\* the call is one thread of control: it takes its next step
SpecBoundsFair == SpecBounds /\ WF_vars(NextBounds)

-----------------------------------------------------------------------------
(* Properties of find_peak_bounds, under SpecBoundsFair *)

\* the max_skip of the searches of a side, in the order they were run
RECURSIVE SkipsOf(_, _)
SkipsOf(searches, side) ==
    IF searches = <<>> THEN <<>>
    ELSE (IF Head(searches)[1] = side THEN <<Head(searches)[2]>> ELSE <<>>)
         \o SkipsOf(Tail(searches), side)

\* the searches run so far are allowed: per side max_skip = 1, 2, ... in
\* turn, five at most; a lower search with max_skip = k > 1 only if the one
\* with k - 1 left a lower residual above 0.25, and likewise an upper search
\* against the lower background that the first loop left
SearchesAllowed ==
    call_pc # "call" =>
        /\ \A side \in {"lower", "upper"} :
              /\ Len(SkipsOf(call_result.searches, side)) \in 1..5
              /\ \A k \in DOMAIN SkipsOf(call_result.searches, side) :
                    SkipsOf(call_result.searches, side)[k] = k
        /\ \A k \in 2..Len(SkipsOf(call_result.searches, "lower")) :
              \E before \in {find_lower_background(call_args.profile, call_args.peak_index,
                                                   call_args.border, k - 1)} :
                 ResidualTooLarge(before[2],
                     Min(before[2],
                         find_upper_background(call_args.profile, call_args.peak_index,
                             PLen(call_args.profile) - call_args.border, 1)[2]),
                     call_args.profile[call_args.peak_index])
        /\ \A k \in 2..Len(SkipsOf(call_result.searches, "upper")) :
              \E before \in {find_upper_background(call_args.profile, call_args.peak_index,
                                 PLen(call_args.profile) - call_args.border, k - 1)} :
                 ResidualTooLarge(before[2], Min(call_result.lower[2], before[2]),
                                  call_args.profile[call_args.peak_index])

\* C23: find_peak_bounds terminates for every profile and peak index, and
\* runs the search of each side at most 5 times: once with max_skip = 1, then
\* at most four times more with max_skip = 2, 3, 4, 5, and one time more only
\* while the relative residual of that side is above 0.25.
C23_TerminatesWithinFiveSearches ==
    /\ <>(call_pc = "return")
    /\ []SearchesAllowed

C23_Witness ==
    /\ call_pc = "return"
    /\ SkipsOf(call_result.searches, "lower") = <<1, 2, 3, 4, 5>>
    /\ Len(SkipsOf(call_result.searches, "upper")) = 1

\* the bounds of the call search by search are those of find_peak_bounds
BoundsAgree ==
    call_pc = "return" =>
        <<call_result.lower[1], call_result.upper[1]>> =
            find_peak_bounds(call_args.profile, call_args.border, call_args.peak_index)

-----------------------------------------------------------------------------
(* The integrated signal, under SpecAnalysis *)

\* (upper_bound - lower_bound) times the sum, over the columns from
\* lower_bound + i to upper_bound, of the profile minus the straight line
\* through the profile at lower_bound and at upper_bound
RECURSIVE AboveEndpointLine(_, _, _, _)
AboveEndpointLine(p, lower_bound, upper_bound, i) ==
    IF lower_bound + i > upper_bound THEN 0
    ELSE (upper_bound - lower_bound) * (p[lower_bound + i] - p[lower_bound])
         - i * (p[upper_bound] - p[lower_bound])
         + AboveEndpointLine(p, lower_bound, upper_bound, i + 1)

SignalAboveEndpointLine(p, lower_bound, upper_bound) ==
    IF upper_bound <= lower_bound THEN Zero
    ELSE Frac(AboveEndpointLine(p, lower_bound, upper_bound, 0),
              upper_bound - lower_bound)

\* C24: the signal of a peak is the sum, over the columns from lower_bound
\* to upper_bound inclusive, of the profile minus the straight line through
\* (lower_bound, profile[lower_bound]) and (upper_bound,
\* profile[upper_bound]): the two end columns add nothing.
C24_SignalAboveEndpointLine ==
    amw_pc = "done" =>
        \A k \in DOMAIN valid_peaks :
            band_signals[k] =
                SignalAboveEndpointLine(profile, valid_lower_bounds[k],
                                        valid_upper_bounds[k])

\* C24, the part that holds: for a peak whose two bounds are at the same
\* intensity the line is level and the signal is the sum above it
C24_SignalAboveLevelLine ==
    amw_pc = "done" =>
        \A k \in DOMAIN valid_peaks :
            (/\ valid_lower_bounds[k] <= valid_upper_bounds[k]
             /\ profile[valid_lower_bounds[k]] = profile[valid_upper_bounds[k]]) =>
                band_signals[k] =
                    SignalAboveEndpointLine(profile, valid_lower_bounds[k],
                                            valid_upper_bounds[k])

\* on a profile that falls in a straight line from one bound to the other
\* the signal is not 0: the line of the code has the slope
\* (profile[upper_bound] - profile[lower_bound]) / (upper_bound - lower_bound + 1)
C24_LinearProfileHasSignal ==
    IntegrateSignal([c \in 0..3 |-> 3 - c], 0, 3) = <<-3, 2>>

-----------------------------------------------------------------------------
(* The passes of the analysis in run(), under Spec *)

\* the peak widths of the invocations of analyze_measurement_window so far
RECURSIVE WidthsInvoked(_)
WidthsInvoked(calls) ==
    IF calls = <<>> THEN <<>>
    ELSE (IF Head(calls)[1] = "analyze_measurement_window"
          THEN <<Head(calls)[2]>> ELSE <<>>)
         \o WidthsInvoked(Tail(calls))

\* C25: run() invokes analyze_measurement_window at most twice per image,
\* first with peak_width 7 and a second time, with peak_width 3, only when
\* the control band is not in the first result; there is no third
\* invocation, and the band values of the record are those of the last
\* invocation made.
C25_AtMostTwoPasses ==
    /\ WidthsInvoked(invoked) \in {<<>>, <<7>>, <<7, 3>>}
    /\ (pc = "returned" /\ WidthsInvoked(invoked) = <<7>>) =>
          /\ control_band_name \in DOMAIN window_results
          /\ \E peak_threshold \in Thresholds :
                window_results \in analyze_measurement_window(sensor.profile, BorderX,
                                                              peak_threshold, 7)
    /\ (pc = "returned" /\ WidthsInvoked(invoked) = <<7, 3>>) =>
          \E peak_threshold \in Thresholds :
             /\ \E first \in analyze_measurement_window(sensor.profile, BorderX,
                                                        peak_threshold, 7) :
                   control_band_name \notin DOMAIN first
             /\ window_results \in analyze_measurement_window(sensor.profile, BorderX,
                                                              peak_threshold, 3)
    /\ (pc = "returned" /\ WidthsInvoked(invoked) # <<>>) =>
          \A b \in Bands :
             IF b \in DOMAIN window_results
             THEN /\ row_data.present[b] = 1
                  /\ row_data.abs[b] = window_results[b].signal
                  /\ row_data.ratio[b] = window_results[b].normalized_signal
             ELSE /\ row_data.present[b] = 0
                  /\ row_data.abs[b] = Zero
                  /\ row_data.ratio[b] = Zero

C25_Witness ==
    /\ pc = "returned"
    /\ WidthsInvoked(invoked) = <<7, 3>>
    /\ control_band_name \in DOMAIN window_results
    /\ row_data.present[control_band_name] = 1
    /\ row_data.issue # Issue.CONTROL_BAND_MISSING

-----------------------------------------------------------------------------
(* SpecOcr: one call of use_ocr_to_rotate_strip_if_needed (lib/analysis.py); *)
(* ocr[angle] is the centre of the first box where the text is read in the   *)
(* image rotated by angle, or None                                           *)

TrialAngles == <<0, -90, 90, 180>>

\* rotate(img, 180) if img is not None
RotateIfGiven(img) == IF img = None THEN None ELSE rotate(img, 180)

\* the return after a hit: both images rotated by 180 degrees if the label
\* is on the wrong side
ReturnAfterHit(img_gray, img, wrong_side) ==
    IF wrong_side
    THEN [img_gray |-> rotate(img_gray, 180), img |-> RotateIfGiven(img), rotated |-> TRUE]
    ELSE [img_gray |-> img_gray, img |-> img, rotated |-> FALSE]

\* lines 1227-1289: the cases of a hit at center in the image rotated by
\* angle, shape being the shape of the rotated image
WrongSide(angle, on_right, center, shape) ==
    IF angle = 0
    THEN IF on_right THEN center.x < shape.width \div 2
         ELSE center.x > shape.width \div 2
    ELSE IF angle = -90
    THEN IF on_right THEN center.y < shape.height \div 2
         ELSE center.y > shape.height \div 2
    ELSE IF on_right THEN center.y > shape.height \div 2
         ELSE center.y < shape.height \div 2

\* the loop over the angles from the k-th on
RECURSIVE TryAngles(_, _, _, _, _)
TryAngles(img_gray, img, on_right, ocr, k) ==
    IF k > Len(TrialAngles)
    THEN [img_gray |-> img_gray, img |-> img, rotated |-> FALSE]
    ELSE IF ocr[TrialAngles[k]] # None
         THEN ReturnAfterHit(img_gray, img,
                  WrongSide(TrialAngles[k], on_right, ocr[TrialAngles[k]],
                            rotate(img_gray, TrialAngles[k])))
         ELSE TryAngles(img_gray, img, on_right, ocr, k + 1)

use_ocr_to_rotate_strip_if_needed(img_gray, img, text, on_right, ocr) ==
    IF text = "" \/ text = "\"\""
    THEN [img_gray |-> img_gray, img |-> img, rotated |-> FALSE]
    ELSE TryAngles(img_gray, img, on_right, ocr, 1)

\* a strip lying flat, six rows of eight columns
StripImage == [height |-> 6, width |-> 8, pixels |-> "input"]

\* centres in the four quarters of the image, whichever way it is turned,
\* and the one at the middle of its width and height when it lies flat
Centers ==
    {[x |-> 1, y |-> 1], [x |-> 1, y |-> 5], [x |-> 5, y |-> 1], [x |-> 5, y |-> 5],
     [x |-> 4, y |-> 3]}

InitOcr ==
    /\ call_pc = "call"
    /\ call_args \in [img_gray : {StripImage}, img : {None, StripImage},
                      text : {"", "COVID"}, on_right : BOOLEAN,
                      ocr : [{0, -90, 90, 180} -> Centers \cup {None}]]
    /\ call_result = <<>>
    /\ AmwIdle
    /\ IbaIdle
    /\ RunIdle
    /\ PoolIdle

UseOcrCall ==
    /\ call_pc = "call"
    /\ call_result' = use_ocr_to_rotate_strip_if_needed(
                          call_args.img_gray, call_args.img, call_args.text,
                          call_args.on_right, call_args.ocr)
    /\ call_pc' = "return"
    /\ UNCHANGED call_args
    /\ UNCHANGED <<amw_vars, iba_vars, run_vars, pool_vars>>

NextOcr == UseOcrCall

SpecOcr == InitOcr /\ [][NextOcr]_vars

-----------------------------------------------------------------------------
(* Properties of use_ocr_to_rotate_strip_if_needed, under SpecOcr *)

\* the angles at which the text is read
Hits(ocr) == {angle \in {0, -90, 90, 180} : ocr[angle] # None}

\* the first of them in the order 0, -90, 90, 180
FirstHit(ocr) ==
    IF 0 \in Hits(ocr) THEN 0
    ELSE IF -90 \in Hits(ocr) THEN -90
    ELSE IF 90 \in Hits(ocr) THEN 90
    ELSE 180

\* is the centre on the wrong side: along x when the image lies as it was
\* passed (0) or upside down (180), along y when it stands (-90: right is
\* down, 90: right is up)
OnWrongSide(angle, on_right, center, height, width) ==
    CASE angle = 0 -> (IF on_right THEN center.x < width \div 2
                       ELSE center.x > width \div 2)
      [] angle = 180 -> (IF on_right THEN center.x > width \div 2
                         ELSE center.x < width \div 2)
      [] angle = -90 -> (IF on_right THEN center.y < width \div 2
                         ELSE center.y > width \div 2)
      [] angle = 90 -> (IF on_right THEN center.y > width \div 2
                        ELSE center.y < width \div 2)

\* the images are returned as they were passed, rotated is False
ReturnedUnchanged ==
    /\ call_result.img_gray = call_args.img_gray
    /\ call_result.img = call_args.img
    /\ call_result.rotated = FALSE

\* both images are returned turned by 180 degrees, rotated is True
ReturnedTurned ==
    /\ call_result.img_gray.pixels = "warpAffine"
    /\ call_result.img_gray.height = call_args.img_gray.height
    /\ call_result.img_gray.width = call_args.img_gray.width
    /\ call_args.img = None => call_result.img = None
    /\ call_args.img # None => call_result.img.pixels = "warpAffine"
    /\ call_result.rotated = TRUE

\* the outcome that the claim asks for when the first hit is at one of angles
DecidedAtFirstHit(angles) ==
    (/\ call_pc = "return"
     /\ call_args.text # ""
     /\ Hits(call_args.ocr) # {}
     /\ FirstHit(call_args.ocr) \in angles) =>
        IF OnWrongSide(FirstHit(call_args.ocr), call_args.on_right,
                       call_args.ocr[FirstHit(call_args.ocr)],
                       call_args.img_gray.height, call_args.img_gray.width)
        THEN ReturnedTurned
        ELSE ReturnedUnchanged

NothingToDecide ==
    (/\ call_pc = "return"
     /\ call_args.text = "" \/ Hits(call_args.ocr) = {}) =>
        ReturnedUnchanged

\* C26: the rotations 0, -90, 90, 180 are tried in that order, the first
\* where the text is read decides: both images are rotated by 180 degrees if
\* and only if the centre of the text is on the wrong side, along x for the
\* trials 0 and 180 and along y for the trials -90 and 90; if the text is
\* never read or is empty, both images are returned unchanged, rotated False.
C26_SideJudgedPerTrial ==
    /\ DecidedAtFirstHit({0, -90, 90, 180})
    /\ NothingToDecide

\* C26, the part that holds: the order, the first hit, the trials 0, -90
\* and 90, and the return when there is nothing to decide
C26_SideJudgedButUpsideDown ==
    /\ DecidedAtFirstHit({0, -90, 90})
    /\ NothingToDecide

\* a hit at the trial 180 is decided along y, as one at the trial 90
C26_UpsideDownJudgedAlongY ==
    (/\ call_pc = "return"
     /\ call_args.text # ""
     /\ Hits(call_args.ocr) = {180}) =>
        call_result.rotated =
           (IF call_args.on_right
            THEN call_args.ocr[180].y > call_args.img_gray.height \div 2
            ELSE call_args.ocr[180].y < call_args.img_gray.height \div 2)

-----------------------------------------------------------------------------
(* SpecInvert: invert_image (lib/analysis.py) on an image of two uint8       *)
(* pixels, as extract_inverted_sensor and get_sensor_contour_fh call it      *)

\* x.astype('uint8')
AsUint8(x) == x % 256

\* 2 ** bit_depth - image for a uint8 image. The Python integer 256 is not a
\* uint8: NumPy before 2.0 computes in uint16, NumPy from 2.0 on raises
\* OverflowError. setup.py asks for 'numpy', any version.
invert_image(image, bit_depth, numpy_version) ==
    IF numpy_version >= 2 /\ 2 ^ bit_depth > 255
    THEN [raised |-> "OverflowError"]
    ELSE [raised |-> "",
          image_inv |-> [k \in DOMAIN image |-> AsUint8(2 ^ bit_depth - image[k])]]

NumpyVersions == {1, 2}

InitInvert ==
    /\ call_pc = "call"
    /\ call_args \in [image : {<<a, b>> : a, b \in 0..255}, bit_depth : {8}]
    /\ call_result = <<>>
    /\ AmwIdle
    /\ IbaIdle
    /\ RunIdle
    /\ PoolIdle

InvertImageCall ==
    /\ call_pc = "call"
    /\ \E numpy_version \in NumpyVersions :
          call_result' = invert_image(call_args.image, call_args.bit_depth, numpy_version)
    /\ call_pc' = "return"
    /\ UNCHANGED call_args
    /\ UNCHANGED <<amw_vars, iba_vars, run_vars, pool_vars>>

NextInvert == InvertImageCall

SpecInvert == InitInvert /\ [][NextInvert]_vars

-----------------------------------------------------------------------------
(* Properties of invert_image, under SpecInvert *)

\* C27: with bit_depth 8 the order of the intensities is reversed and
\* nothing wraps around: for pixel values 0 <= a < b <= 255 the inverted
\* value of a is greater than that of b, every inverted value is in 0..255,
\* and 0, the darkest, becomes the brightest value.
C27_OrderReversed ==
    call_pc = "return" =>
        /\ call_result.raised = ""
        /\ \A k \in 1..2 : call_result.image_inv[k] \in 0..255
        /\ call_args.image[1] < call_args.image[2] =>
              call_result.image_inv[1] > call_result.image_inv[2]
        /\ \A k \in 1..2 : call_args.image[k] = 0 => call_result.image_inv[k] = 255

\* C27, the part that holds: where the call returns, a pixel v from 1 to 255
\* becomes 256 - v, which reverses the order among these; the pixel 0
\* becomes 0, the darkest
C27_OrderReversedAboveZero ==
    (call_pc = "return" /\ call_result.raised = "") =>
        /\ \A k \in 1..2 :
              call_result.image_inv[k] =
                 IF call_args.image[k] = 0 THEN 0 ELSE 256 - call_args.image[k]
        /\ (0 < call_args.image[1] /\ call_args.image[1] < call_args.image[2]) =>
              call_result.image_inv[1] > call_result.image_inv[2]

-----------------------------------------------------------------------------
(* The decode passes of one image: what each pass returned and what the
   record keeps of it (pipeline.py 617-624, 659-686, 718-726, 755-806) *)

\* positions in the log of the decode passes made so far
DecodePasses == {i \in DOMAIN invoked : invoked[i][1] = "decode"}

\* a pass returned a QR sample id or a CODE128/CODE39 fallback id
SomePassFoundAnId ==
    \E i \in DecodePasses : invoked[i][3] # "" \/ invoked[i][4] # ""

\* a step of the second or third pass keeps every patient value found before
FoundDataKept ==
    (pc \in {"rotate", "align"}) =>
        /\ fid # "" => fid' = fid
        /\ \A k \in DOMAIN patient : patient[k] # "" => patient'[k] = patient[k]

\* the step that stores the patient data writes a fid if a pass found an id
FoundIdWritten ==
    (pc = "fid" /\ SomePassFoundAnId) => results_row'.fid # ""

\* C28: across the decode passes of one image, a non-empty fid, manufacturer,
\* plate, well or user is never replaced by the value of a later pass, and
\* if any pass returned a non-empty QR sample id or fallback id, the fid
\* written to the record is non-empty.
C28_PatientDataNeverLost == [][FoundDataKept /\ FoundIdWritten]_vars

\* The first half holds: a value found by an earlier pass is never replaced
C28_FoundDataNeverReplaced == [][FoundDataKept]_vars

\* What holds for the fid: it is written whenever the variables fid or
\* fid_128 hold an id after the last pass; the third pass's QR values are
\* dropped and its fid_128 overwrites the one found before
C28_HeldIdWritten ==
    [][(pc = "fid" /\ (fid # "" \/ fid_128 # "")) => results_row'.fid # ""]_vars

\* an id returned by a pass and an empty fid in the record
C28_IdFoundButNotWritten ==
    /\ pc = "returned"
    /\ SomePassFoundAnId
    /\ \E i \in DOMAIN invoked : invoked[i][1] = "analyze_measurement_window"
    /\ row_data.fid = ""
    /\ row_data.issue = Issue.FID_EXTRACTION_FAILED

-----------------------------------------------------------------------------
(* The order of what run_pool returns, under SpecPool *)

\* the files of the records returned, in the order of the records
FilesOfRecords == [k \in DOMAIN res |-> res[k].basename]

\* the records are those of the loaded files, in the order of the file list
RecordsInFileOrder ==
    /\ \A j, k \in DOMAIN res : j < k => FilesOfRecords[j] < FilesOfRecords[k]
    /\ {FilesOfRecords[k] : k \in DOMAIN res} =
          {i \in DOMAIN files : files[i] # "unloadable"}

\* the i-th log is the log of the i-th file: every line that names a file
\* names that one
LogsInFileOrder ==
    /\ Len(log_list) = Len(files)
    /\ \A i \in DOMAIN log_list :
          \A n \in DOMAIN log_list[i] :
              Len(log_list[i][n]) = 2 => log_list[i][n][2] = i

\* C29 as stated: run_pool returns the records and the logs in the order of
\* the file list, whatever the order in which the threads finish and
\* whatever max_workers is; each log holds only the lines of its own image,
\* starting with the 'File = <filename>' line.
C29_LogStartsWithFileLine ==
    pool_pc = "returned" =>
        /\ RecordsInFileOrder
        /\ LogsInFileOrder
        /\ \A i \in DOMAIN log_list : log_list[i][1] = FileLine(i)

\* C29, amended: the records and the logs are returned in the order of the
\* file list, whatever the order in which the threads finish and whatever
\* max_workers is; each log holds only the lines of its own image, starting
\* with a blank line followed by the 'File = <filename>' line.
C29_ReturnedInFileOrder ==
    pool_pc = "returned" =>
        /\ RecordsInFileOrder
        /\ LogsInFileOrder
        /\ \A i \in DOMAIN log_list :
              log_list[i][1] = BlankLine /\ log_list[i][2] = FileLine(i)

\* three loaded files on two threads, the second call ended before the first
C29_Witness ==
    /\ pool_pc = "returned"
    /\ max_workers = 2
    /\ Len(files) = MaxFiles
    /\ Len(res) = MaxFiles
    /\ futures[2].ended < futures[1].ended

-----------------------------------------------------------------------------
(* The record run() returns, under Spec *)

\* run() returned a record with its keys (an image that could not be loaded
\* gives the empty dictionary)
RecordReturned == pc = "returned" /\ row_data # <<>>

\* C30: for every record returned by run(), issue == NONE implies that fid
\* is non-empty, that the control band's presence flag is 1 and its ratio
\* 1.0; and for every record and every band, a presence flag of 0 implies
\* that the band's _abs and _ratio values are 0.
C30_RecordInvariants ==
    RecordReturned =>
        /\ row_data.issue = Issue.NONE =>
              /\ row_data.fid # ""
              /\ row_data.present[control_band_name] = 1
              /\ row_data.ratio[control_band_name] = One
        /\ \A b \in Bands :
              row_data.present[b] = 0 =>
                  row_data.abs[b] = Zero /\ row_data.ratio[b] = Zero

\* a record without issue: the control band with a signal and a band that
\* was not found
C30_Witness ==
    /\ RecordReturned
    /\ row_data.issue = Issue.NONE
    /\ row_data.abs[control_band_name] # Zero
    /\ \E b \in Bands : row_data.present[b] = 0
    /\ \E b \in Bands \ {control_band_name} : row_data.present[b] = 1

====
